---- MODULE Spec2Model ----
(***************************************************************************)
(* Message interception/replay (core/msg.ts), command dispatch             *)
(* (core/cmd.ts) and the paginated menu state machine (core/menu.ts) of    *)
(* nodemod/core-goldsrc, as state machines.                                *)
(*                                                                         *)
(* Strings are sequences of one-character strings, so that the tokenizer   *)
(* and split/parseInt are computed character by character.                 *)
(***************************************************************************)
EXTENDS Integers, Sequences, FiniteSets, TLC

VARIABLES
    tokIn,      \* parseCommand: the raw command text
    tokOut,     \* parseCommand: the returned argument list
    tokDone,    \* parseCommand has been applied to tokIn
    bmdMenu,    \* buildMenuDisplay: the menu rendered
    bmdPage,    \* buildMenuDisplay: the page rendered
    bmdMask,    \* buildMenuDisplay: the returned keyMask
    bmdDone,    \* buildMenuDisplay has been applied
    metaResult, \* the host's shared result code of the hook being served
    listeners,  \* NodemodMsg (EventEmitter): listeners per label and message name
    state,      \* NodemodMsg.state: <<>> (null) or <<capture>>
    registeredEventTypes, \* NodemodMsg.registeredEventTypes: id -> name
    msgPhase,   \* host framing of a message raised outside the library
    calls,      \* host primitives invoked for the current message, with the invoker
    wire,       \* host primitives really executed for the current message
    emitted,    \* listener invocations for the current message
    sendOptions, \* <<options>> of the last send() call, <<>> before any
    commands,   \* NodemodCmd.commands
    nativeCommands, \* names given to nodemod.eng.addServerCommand
    ran,        \* registrations whose handler the dispatcher invoked for this input
    escaped,    \* an exception left a listener of this input
    menuStates, \* NodemodMenu.menuStates: key -> session object (0: no entry)
    sessions,   \* the MenuState objects alive (referenced by a key or a timer)
    timers,     \* pending setTimeout callbacks
    renders,    \* ShowMenu renders made by the last menu operation
    callbacks   \* menu callbacks (handler, onExit, onTimeout) run by the last operation

varsTok == <<tokIn, tokOut, tokDone>>
varsBmd == <<bmdMenu, bmdPage, bmdMask, bmdDone>>
varsMsg == <<listeners, state, registeredEventTypes, msgPhase, calls, wire, emitted,
             sendOptions>>
varsCmd == <<commands, nativeCommands, ran, escaped>>
varsMenu == <<menuStates, sessions, timers, renders, callbacks>>
vars == <<varsTok, varsBmd, metaResult, varsMsg, varsCmd, varsMenu>>

\* ------------------------------------------------------------------ bounds
MaxLen == 5         \* longest raw command text drawn for parseCommand
MaxItems == 15      \* most items of a menu drawn for buildMenuDisplay
PatLen == 2         \* period of the item pattern of a drawn menu
MaxFields == 2      \* most fields written in one message
MaxListeners == 2   \* most listeners registered on the message emitter
MaxCmds == 2        \* most command registrations
MaxTimers == 2      \* most timers pending at once
MaxUsed == 1        \* longest used list of a session

\* --------------------------------------------------------------- helpers
QUOTE == "\""
SPACE == " "

Min(a, b) == IF a < b THEN a ELSE b

RECURSIVE Pow2(_)
Pow2(k) == IF k = 0 THEN 1 ELSE 2 * Pow2(k - 1)

\* bit k of the non-negative integer m
Bit(m, k) == (m \div Pow2(k)) % 2 = 1

\* m | (1 << k)
BitOr(m, k) == IF Bit(m, k) THEN m ELSE m + Pow2(k)

\* all sequences over S of length at most n
SeqsUpTo(S, n) == UNION {[1..k -> S] : k \in 0..n}

\* ------------------------------------------------ cmd.ts: parseCommand
RECURSIVE parseLoop(_, _, _, _, _)
parseLoop(command, i, args, current, inQuotes) ==
    IF i > Len(command)
    THEN [args |-> args, current |-> current]
    ELSE LET char == command[i] IN
         IF char = QUOTE
         THEN parseLoop(command, i + 1, args, current, ~inQuotes)
         ELSE IF char = SPACE /\ ~inQuotes
         THEN IF Len(current) > 0
              THEN parseLoop(command, i + 1, Append(args, current), <<>>, inQuotes)
              ELSE parseLoop(command, i + 1, args, current, inQuotes)
         ELSE parseLoop(command, i + 1, args, Append(current, char), inQuotes)

\* faulty variant: the quote character is kept in the token
RECURSIVE parseLoopKeepQuote(_, _, _, _, _)
parseLoopKeepQuote(command, i, args, current, inQuotes) ==
    IF i > Len(command)
    THEN [args |-> args, current |-> current]
    ELSE LET char == command[i] IN
         IF char = SPACE /\ ~inQuotes
         THEN IF Len(current) > 0
              THEN parseLoopKeepQuote(command, i + 1, Append(args, current), <<>>, inQuotes)
              ELSE parseLoopKeepQuote(command, i + 1, args, current, inQuotes)
         ELSE parseLoopKeepQuote(command, i + 1, args, Append(current, char),
                                 IF char = QUOTE THEN ~inQuotes ELSE inQuotes)

parseCommandKeepQuote(command) ==
    LET r == parseLoopKeepQuote(command, 1, <<>>, <<>>, FALSE) IN
    IF Len(r.current) > 0 THEN Append(r.args, r.current) ELSE r.args

parseCommand(command) ==
    LET r == parseLoop(command, 1, <<>>, <<>>, FALSE) IN
    IF Len(r.current) > 0 THEN Append(r.args, r.current) ELSE r.args

\* ------------------------------------------- menu.ts: buildMenuDisplay
ITEMS_PER_PAGE == 7

\* Math.ceil(menu.items.length / ITEMS_PER_PAGE)
totalPagesOf(menu) == (Len(menu.items) + ITEMS_PER_PAGE - 1) \div ITEMS_PER_PAGE

\* menu.items.slice(startIndex, endIndex), indices 0-based as in the source
slice(items, startIndex, endIndex) ==
    IF endIndex <= startIndex THEN <<>> ELSE SubSeq(items, startIndex + 1, endIndex)

\* faulty variant: every enabled item gets its bit
RECURSIVE itemBitsEnabled(_, _, _)
itemBitsEnabled(pageItems, index, keyMask) ==
    IF index >= Len(pageItems) THEN keyMask
    ELSE itemBitsEnabled(pageItems, index + 1,
                         IF ~pageItems[index + 1].disabled
                         THEN BitOr(keyMask, index) ELSE keyMask)

\* the forEach over pageItems: index is 0-based, displayNumber = index + 1
RECURSIVE itemBits(_, _, _)
itemBits(pageItems, index, keyMask) ==
    IF index >= Len(pageItems) THEN keyMask
    ELSE LET item == pageItems[index + 1]
             displayNumber == index + 1
         IN itemBits(pageItems, index + 1,
                IF ~item.disabled /\ (item.handler # "none" \/ item.submenu # 0)
                THEN BitOr(keyMask, displayNumber - 1) ELSE keyMask)

\* faulty variant: the next-page bit is also set on the last page
buildMenuDisplayNextOnLast(menu, page) ==
    LET startIndex == page * ITEMS_PER_PAGE
        endIndex == Min(startIndex + ITEMS_PER_PAGE, Len(menu.items))
        pageItems == slice(menu.items, startIndex, endIndex)
        totalPages == totalPagesOf(menu)
        m1 == itemBits(pageItems, 0, 0)
        m2 == IF page > 0 THEN BitOr(m1, 7) ELSE m1
        m3 == IF page < totalPages THEN BitOr(m2, 8) ELSE m2
    IN BitOr(m3, 9)

\* the keyMask of the render (the text block is not modelled)
buildMenuDisplay(menu, page) ==
    LET startIndex == page * ITEMS_PER_PAGE
        endIndex == Min(startIndex + ITEMS_PER_PAGE, Len(menu.items))
        pageItems == slice(menu.items, startIndex, endIndex)
        totalPages == totalPagesOf(menu)
        m1 == itemBits(pageItems, 0, 0)
        m2 == IF page > 0 THEN BitOr(m1, 7) ELSE m1
        m3 == IF page < totalPages - 1 THEN BitOr(m2, 8) ELSE m2
    IN BitOr(m3, 9)

\* ----------------------------------------------------- host constants
\* nodemod.MRES (the shared result code)
UNSET == 0
IGNORED == 1
HANDLED == 2
OVERRIDE == 3
SUPERCEDE == 4

\* MsgTypes.bad, MsgDest.one, MsgDest.all
MsgTypes_bad == 0
MsgDest_one == 1
MsgDest_all == 2
broadcastDestinations == {0, 2, 3, 4, 5, 6, 7, 9}

\* JavaScript values that travel through the write primitives
Num(n) == [tag |-> "num", n |-> n, s |-> ""]
Str(x) == [tag |-> "str", n |-> 0, s |-> x]
EntV(i) == [tag |-> "ent", n |-> i, s |-> ""]
Bool(b) == [tag |-> "bool", n |-> IF b THEN 1 ELSE 0, s |-> ""]

\* v || d
OrElse(v, d) ==
    IF (v.tag \in {"num", "bool"} /\ v.n = 0) \/ (v.tag = "str" /\ v.s = "") THEN d ELSE v

\* entity references: absent, an entity index, an entity object
NoEntity == [form |-> "none", idx |-> 0]
EntIndex(i) == [form |-> "index", idx |-> i]
EntObject(i) == [form |-> "object", idx |-> i]
Truthy(e) == e.form = "object" \/ (e.form = "index" /\ e.idx # 0)

\* the host's user-message table: nodemod.getUserMsgName(id)
getUserMsgName(id) ==
    CASE id = 1 -> "TextMsg" [] id = 2 -> "ShowMenu" [] OTHER -> ""

\* nodemod.getUserMsgId(name) ?? nodemod.eng.regUserMsg(name, size)
hostUserMsgId(name) ==
    CASE name = "TextMsg" -> 1 [] name = "ShowMenu" -> 2 [] OTHER -> MsgTypes_bad

\* one invocation of a host primitive
BeginCall(dest, type, origin, entity, by) ==
    [op |-> "begin", by |-> by, dest |-> dest, type |-> type, origin |-> origin,
     entity |-> entity, kind |-> "", value |-> Num(0)]
WriteCall(kind, value, by) ==
    [op |-> "write", by |-> by, dest |-> 0, type |-> 0, origin |-> <<>>,
     entity |-> NoEntity, kind |-> kind, value |-> value]
EndCall(by) ==
    [op |-> "end", by |-> by, dest |-> 0, type |-> 0, origin |-> <<>>,
     entity |-> NoEntity, kind |-> "", value |-> Num(0)]

\* what the engine serializes for an executed call: an entity as its index
Executed(call) ==
    IF call.value.tag = "ent" THEN [call EXCEPT !.value = Num(call.value.n)] ELSE call

\* ------------------------------------------- msg.ts: the interceptor
\* this.listeners(name) / this.listeners(`post:${name}`)
listenersOf(L, label, name) ==
    IF name \in DOMAIN L[label] THEN L[label][name] ELSE <<>>

\* faulty variant: a write after the end marker is appended again
writeValueAfterEnd(st, value, type) ==
    IF st = <<>>
    THEN [state |-> st, supercede |-> FALSE]
    ELSE [state |-> <<[st[1] EXCEPT !.data = Append(@, value),
                                    !.rawData = Append(@, [type |-> type, value |-> value])]>>,
          supercede |-> TRUE]

writeValue(st, value, type) ==
    IF st = <<>> \/ st[1].isMessageEnd
    THEN [state |-> st, supercede |-> FALSE]
    ELSE [state |-> <<[st[1] EXCEPT !.data = Append(@, value),
                                    !.rawData = Append(@, [type |-> type, value |-> value])]>>,
          supercede |-> TRUE]

\* the engWrite* listeners: writeValue(v || 0, kind), (v || ''), (v)
engWriteListener(st, kind, v) ==
    writeValue(st,
               CASE kind = "string" -> OrElse(v, Str(""))
                 [] kind = "entity" -> v
                 [] OTHER -> OrElse(v, Num(0)),
               kind)

\* a host write primitive invoked by `by`: the hook handler runs, and the
\* primitive is executed unless the handler set SUPERCEDE
hostWrite(m, kind, arg, by) ==
    LET h == engWriteListener(m.state, kind, arg)
        call == WriteCall(kind, arg, by)
    IN [m EXCEPT !.state = h.state,
                 !.calls = Append(@, call),
                 !.wire = IF h.supercede THEN @ ELSE Append(@, Executed(call)),
                 !.meta = IF h.supercede THEN SUPERCEDE ELSE IGNORED]

\* this.writers[kind](v)
writers(m, kind, v, by) ==
    hostWrite(m,
              kind,
              CASE kind = "string" -> OrElse(v, Str(""))
                [] kind = "entity" -> (IF v.tag = "num" THEN v ELSE Num(v.n))
                [] OTHER -> v,
              by)

\* this.emit(event, snapshot): the listeners run in order; one that throws
\* ends the emit, the exception leaving it.  Each invocation is logged with
\* what the listener can observe: the snapshot, whether this.state holds a
\* capture (cur), and how many host calls were made before it (made)
RECURSIVE emitFrom(_, _, _, _, _, _, _)
emitFrom(ls, i, label, snapshot, cur, made, log) ==
    IF i > Len(ls) THEN [emitted |-> log, threw |-> FALSE]
    ELSE LET e == [label |-> label, name |-> snapshot.name, idx |-> i,
                   seen |-> snapshot.rawData, ended |-> snapshot.isMessageEnd,
                   open |-> cur # <<>>, at |-> made, threw |-> ls[i] = "throw"]
         IN IF ls[i] = "throw"
            THEN [emitted |-> Append(log, e), threw |-> TRUE]
            ELSE emitFrom(ls, i + 1, label, snapshot, cur, made, Append(log, e))

\* faulty variant: only pre listeners open a capture
onMessageBeginPreOnly(m, L, msg_dest, msg_type, origin, entity) ==
    LET name == getUserMsgName(msg_type) IN
    IF Len(listenersOf(L, "pre", name)) = 0
    THEN m
    ELSE [m EXCEPT !.state = <<[dest |-> msg_dest, type |-> msg_type, name |-> name,
                                origin |-> origin, entity |-> entity, data |-> <<>>,
                                rawData |-> <<>>, isMessageEnd |-> FALSE]>>]

\* the engMessageBegin listener
onMessageBegin(m, L, msg_dest, msg_type, origin, entity) ==
    LET name == getUserMsgName(msg_type) IN
    IF Len(listenersOf(L, "pre", name)) = 0 /\ Len(listenersOf(L, "post", name)) = 0
    THEN m
    ELSE [m EXCEPT !.state = <<[dest |-> msg_dest, type |-> msg_type, name |-> name,
                                origin |-> origin, entity |-> entity, data |-> <<>>,
                                rawData |-> <<>>, isMessageEnd |-> FALSE]>>]

\* this.state.rawData.map(v => this.writers[v.type](v.value))
RECURSIVE replay(_, _, _)
replay(m, rawData, i) ==
    IF i > Len(rawData) THEN m
    ELSE replay(writers(m, rawData[i].type, rawData[i].value, "replay"), rawData, i + 1)

\* the engMessageEnd listener
onMessageEnd(m, L) ==
    IF m.state = <<>> THEN m
    ELSE LET st == m.state[1]
             em == emitFrom(listenersOf(L, "pre", st.name), 1, "pre", st, m.state,
                            Len(m.calls), m.emitted)
         IN IF em.threw
            THEN [m EXCEPT !.emitted = em.emitted]
            ELSE LET m1 == [m EXCEPT !.emitted = em.emitted,
                                     !.state = <<[st EXCEPT !.isMessageEnd = TRUE]>>]
                     m2 == replay(m1, m1.state[1].rawData, 1)
                 IN [m2 EXCEPT !.state =
                        <<[m2.state[1] EXCEPT !.data =
                             [k \in 1..Len(m2.state[1].rawData) |-> m2.state[1].rawData[k].value]]>>]

\* the postEngMessageEnd listener
onPostMessageEnd(m, L) ==
    IF m.state = <<>> THEN m
    ELSE LET st == m.state[1]
             cleared == [m EXCEPT !.state = <<>>]
             em == emitFrom(listenersOf(L, "post", st.name), 1, "post", st, cleared.state,
                            Len(m.calls), m.emitted)
         IN [cleared EXCEPT !.emitted = em.emitted]

\* the host's messageBegin primitive invoked by `by`: hook, then execution
hostMessageBegin(m, L, dest, type, origin, entity, by) ==
    LET m1 == onMessageBegin(m, L, dest, type, origin, entity)
        call == BeginCall(dest, type, origin, entity, by)
    IN [m1 EXCEPT !.calls = <<call>>, !.wire = <<call>>, !.emitted = <<>>,
                  !.meta = IGNORED]

\* the host's messageEnd primitive: hook, execution
hostMessageEnd(m, L, by) ==
    LET m1 == onMessageEnd([m EXCEPT !.calls = Append(@, EndCall(by))], L)
    IN [m1 EXCEPT !.wire = Append(@, EndCall(by)), !.meta = IGNORED]

\* the host's post hook of messageEnd
hostPostMessageEnd(m, L) == [onPostMessageEnd(m, L) EXCEPT !.meta = IGNORED]

\* this.state.data = this.state.rawData.map(v => v.value)
finished(m) ==
    [m EXCEPT !.state[1].data =
        [k \in 1..Len(m.state[1].rawData) |-> m.state[1].rawData[k].value]]

\* ------------------------------------------------ msg.ts: the sender
\* getUserMsgId(name) with register(name): memoized in registeredEventTypes
getUserMsgId(ret, name) ==
    LET known == {id \in DOMAIN ret : ret[id] = name} IN
    IF known # {}
    THEN [id |-> CHOOSE id \in known : \A o \in known : id <= o, ret |-> ret]
    ELSE LET eventId == hostUserMsgId(name) IN
         IF eventId = MsgTypes_bad
         THEN [id |-> eventId, ret |-> ret]
         ELSE [id |-> eventId, ret |-> (eventId :> name) @@ ret]

\* this.util.forceEntityObject(entity)
forceEntityObject(e) == EntObject(e.idx)

\* nodemod.eng.pEntityOfEntIndex(0)
worldEntity == EntObject(0)

\* options.data.map(v => this.writers[v.type](v.value))
RECURSIVE sendData(_, _, _)
sendData(m, data, i) ==
    IF i > Len(data) THEN m
    ELSE sendData(writers(m, data[i].type, data[i].value, "send"), data, i + 1)

\* options.dest ?? (options.entity ? MsgDest.one : MsgDest.all)
destOf(options) ==
    IF options.hasDest THEN options.dest
    ELSE IF Truthy(options.entity) THEN MsgDest_one ELSE MsgDest_all

\* faulty variant: the explicit recipient is kept for every destination
finalEntityKeep(options) ==
    IF Truthy(options.entity) THEN forceEntityObject(options.entity) ELSE worldEntity

finalEntityOf(options) ==
    IF destOf(options) \in broadcastDestinations THEN NoEntity
    ELSE IF Truthy(options.entity) THEN forceEntityObject(options.entity)
    ELSE worldEntity

\* faulty variant: a name that resolves to MsgTypes.bad is sent all the same
sendUnresolved(m, ret, L, options) ==
    IF ~options.type.isName /\ options.type.id = MsgTypes_bad
    THEN [m |-> m, ret |-> ret, sent |-> FALSE]
    ELSE LET r == IF options.type.isName THEN getUserMsgId(ret, options.type.name)
                  ELSE [id |-> options.type.id, ret |-> ret]
             m1 == hostMessageBegin(m, L, destOf(options), r.id,
                        IF options.hasOrigin THEN options.origin ELSE <<0, 0, 0>>,
                        finalEntityOf(options), "send")
             m2 == sendData(m1, options.data, 1)
             m3 == hostMessageEnd(m2, L, "send")
         IN [m |-> hostPostMessageEnd(m3, L), ret |-> r.ret, sent |-> TRUE]

\* send(options) on the interceptor record m and the memo table ret; the
\* host's messageEnd runs its hook, the primitive and its post hook
send(m, ret, L, options) ==
    IF ~options.type.isName /\ options.type.id = MsgTypes_bad
    THEN [m |-> m, ret |-> ret, sent |-> FALSE]
    ELSE LET r == IF options.type.isName THEN getUserMsgId(ret, options.type.name)
                  ELSE [id |-> options.type.id, ret |-> ret]
         IN IF r.id = MsgTypes_bad
            THEN [m |-> m, ret |-> r.ret, sent |-> FALSE]
            ELSE LET m1 == hostMessageBegin(m, L, destOf(options), r.id,
                                IF options.hasOrigin THEN options.origin ELSE <<0, 0, 0>>,
                                finalEntityOf(options), "send")
                     m2 == sendData(m1, options.data, 1)
                     m3 == hostMessageEnd(m2, L, "send")
                 IN [m |-> hostPostMessageEnd(m3, L), ret |-> r.ret, sent |-> TRUE]

\* ------------------------------- msg.ts: send() from inside a listener
\* A pre listener may call this.send(options) in its body, once (a listener
\* that sends on every invocation never returns).  The primitives it invokes
\* raise the hooks on the interceptor as it stands in the middle of the emit.
\* The logs of the inner message continue those of the outer one.
continued(m, r) ==
    IF ~r.sent THEN [m |-> m, ret |-> r.ret]
    ELSE [m |-> [r.m EXCEPT !.calls = m.calls \o @,
                            !.wire = m.wire \o @,
                            !.emitted = m.emitted
                                \o [k \in 1..Len(r.m.emitted) |->
                                       [r.m.emitted[k] EXCEPT !.at = @ + Len(m.calls)]]],
          ret |-> r.ret]
listenerSends(m, ret, L, options) == continued(m, send(m, ret, L, options))

\* the object the local variable `state` of the engMessageEnd listener refers
\* to once the inner send() has returned: untouched when the inner begin put
\* a new capture in this.state, and otherwise what the inner writes and the
\* inner end made of it
stateObject(m, L, options, st) ==
    IF options.type.id = MsgTypes_bad THEN st
    ELSE IF Len(listenersOf(L, "pre", getUserMsgName(options.type.id)))
            + Len(listenersOf(L, "post", getUserMsgName(options.type.id))) > 0
    THEN st
    ELSE hostMessageEnd(
             sendData(hostMessageBegin(m, L, destOf(options), options.type.id,
                                       <<0, 0, 0>>, finalEntityOf(options), "send"),
                      options.data, 1),
             L, "send").state[1]

\* the rest of the engMessageEnd listener after the first pre listener has
\* sent and returned: the other listeners, then this.state.isMessageEnd = true
\* (a TypeError when this.state is null by now), the replay of
\* this.state.rawData and this.state.data
endAfterEmit(m, em) ==
    IF em.threw \/ m.state = <<>>
    THEN [m EXCEPT !.emitted = em.emitted]
    ELSE finished(replay([m EXCEPT !.emitted = em.emitted,
                                   !.state[1].isMessageEnd = TRUE],
                         m.state[1].rawData, 1))
endAfterSend(r, ls, snapshot) ==
    [m |-> endAfterEmit(r.m, emitFrom(ls, 2, "pre", snapshot, r.m.state,
                                      Len(r.m.calls), r.m.emitted)),
     ret |-> r.ret]

\* the engMessageEnd listener when the first pre listener of the message
\* calls send(options)
onMessageEndSending(m, ret, L, options) ==
    IF m.state = <<>> THEN [m |-> m, ret |-> ret]
    ELSE IF listenersOf(L, "pre", m.state[1].name) = <<>>
            \/ listenersOf(L, "pre", m.state[1].name)[1] # "ok"
    THEN [m |-> onMessageEnd(m, L), ret |-> ret]
    ELSE endAfterSend(
             listenerSends([m EXCEPT !.emitted =
                              Append(@, [label |-> "pre", name |-> m.state[1].name,
                                         idx |-> 1, seen |-> m.state[1].rawData,
                                         ended |-> m.state[1].isMessageEnd,
                                         open |-> TRUE, at |-> Len(m.calls),
                                         threw |-> FALSE])],
                           ret, L, options),
             listenersOf(L, "pre", m.state[1].name),
             stateObject(m, L, options, m.state[1]))

\* the host's messageEnd primitive when the first pre listener sends
ended(r, by) ==
    [m |-> [r.m EXCEPT !.wire = Append(@, EndCall(by)), !.meta = IGNORED], ret |-> r.ret]
hostMessageEndSending(m, ret, L, by, options) ==
    ended(onMessageEndSending([m EXCEPT !.calls = Append(@, EndCall(by))], ret, L, options),
          by)

\* ------------------------------------------------ cmd.ts: dispatcher
\* this.commands.filter(v => v.name === commandName && v.type === type);
\* head is <<>> when args[0] is undefined
getCommands(cmds, head, type) ==
    LET match(v) == head # <<>> /\ v.name = head[1] /\ v.type = type
    IN SelectSeq(cmds, match)

\* the for loop over the matched registrations.  A handler either returns
\* nothing, a number, or a promise, calls setMetaResult itself, or throws (the
\* loop has no try/catch: the exception leaves the listener)
\* faulty variant: the number a promise resolves to is applied like a returned one
RECURSIVE runHandlersAwait(_, _, _, _)
runHandlersAwait(cmds, i, meta, log) ==
    IF i > Len(cmds) THEN [meta |-> meta, ran |-> log, threw |-> FALSE]
    ELSE LET command == cmds[i]
             h == command.handler
             log1 == Append(log, command.reg)
         IN IF h.k = "throw" THEN [meta |-> meta, ran |-> log1, threw |-> TRUE]
            ELSE LET byHandler == IF h.k = "set" THEN h.v ELSE meta
                     mres == IF h.k \in {"num", "promise"} THEN h.v ELSE byHandler
                 IN IF mres = SUPERCEDE
                    THEN [meta |-> mres, ran |-> log1, threw |-> FALSE]
                    ELSE runHandlersAwait(cmds, i + 1, mres, log1)

RECURSIVE runHandlers(_, _, _, _)
runHandlers(cmds, i, meta, log) ==
    IF i > Len(cmds) THEN [meta |-> meta, ran |-> log, threw |-> FALSE]
    ELSE LET command == cmds[i]
             h == command.handler
             log1 == Append(log, command.reg)
         IN IF h.k = "throw" THEN [meta |-> meta, ran |-> log1, threw |-> TRUE]
            ELSE LET byHandler == IF h.k = "set" THEN h.v ELSE meta
                     mres == IF h.k = "num" THEN h.v ELSE byHandler
                 IN IF mres = SUPERCEDE
                    THEN [meta |-> mres, ran |-> log1, threw |-> FALSE]
                    ELSE runHandlers(cmds, i + 1, mres, log1)

\* faulty variant: the listener does not look at the signal it is entered with
dllClientCommandUnchecked(cmds, meta, rtext) ==
    LET args == parseCommand(rtext)
        head == IF Len(args) > 0 THEN <<args[1]>> ELSE <<>>
        clientCommands == getCommands(cmds, head, "client")
        consoleCommands == getCommands(cmds, head, "console")
        matched == clientCommands \o consoleCommands
    IN IF Len(matched) = 0 THEN [meta |-> meta, ran |-> <<>>, threw |-> FALSE]
       ELSE LET r == runHandlers(matched, 1, meta, <<>>)
            IN IF r.threw THEN r
               ELSE IF Len(clientCommands) = 0 /\ r.meta = IGNORED
               THEN [r EXCEPT !.meta = SUPERCEDE]
               ELSE r

\* faulty variant: the forced suppress does not look at the client registrations
dllClientCommandForced(cmds, meta, rtext) ==
    IF meta = SUPERCEDE THEN [meta |-> meta, ran |-> <<>>, threw |-> FALSE]
    ELSE LET args == parseCommand(rtext)
             head == IF Len(args) > 0 THEN <<args[1]>> ELSE <<>>
             matched == getCommands(cmds, head, "client") \o getCommands(cmds, head, "console")
         IN IF Len(matched) = 0 THEN [meta |-> meta, ran |-> <<>>, threw |-> FALSE]
            ELSE LET r == runHandlers(matched, 1, meta, <<>>)
                 IN IF r.threw THEN r
                    ELSE IF r.meta = IGNORED THEN [r EXCEPT !.meta = SUPERCEDE]
                    ELSE r

\* the dllClientCommand listener of NodemodCmd
dllClientCommand(cmds, meta, rtext) ==
    IF meta = SUPERCEDE THEN [meta |-> meta, ran |-> <<>>, threw |-> FALSE]
    ELSE LET args == parseCommand(rtext)
             head == IF Len(args) > 0 THEN <<args[1]>> ELSE <<>>
             clientCommands == getCommands(cmds, head, "client")
             consoleCommands == getCommands(cmds, head, "console")
             matched == clientCommands \o consoleCommands
         IN IF Len(matched) = 0 THEN [meta |-> meta, ran |-> <<>>, threw |-> FALSE]
            ELSE LET r == runHandlers(matched, 1, meta, <<>>)
                 IN IF r.threw THEN r
                    ELSE IF Len(clientCommands) = 0 /\ r.meta = IGNORED
                    THEN [r EXCEPT !.meta = SUPERCEDE]
                    ELSE r

\* ------------------------------------------------ menu.ts: the menus
\* The Menu objects of the model.  An item: its handler ("none" when absent,
\* else what the handler does), its submenu (0 when absent), its disabled flag.
It(h, sub, dis) == [handler |-> h, submenu |-> sub, disabled |-> dis]
MenuDef(id) ==
    IF id = 1
    THEN [time |-> 5,
          items |-> <<It("ok", 2, FALSE), It("ok", 0, FALSE), It("throw", 0, FALSE),
                      It("ok", 0, TRUE), It("none", 0, FALSE), It("reject", 0, FALSE),
                      It("none", 2, TRUE),
                      It("none", 2, FALSE), It("ok", 0, FALSE)>>]
    ELSE [time |-> 0,
          items |-> <<It("ok", 0, FALSE), It("show", 0, FALSE)>>]
MenuIds == {1, 2}

\* the key of menuStates for broadcast menus ('all'); clients use their index
AllKey == 0
\* nodemod.players
Players == <<1, 2>>
Clients == {Players[i] : i \in DOMAIN Players}
Keys == {AllKey} \cup Clients
\* names for the session objects and the timer handles: one per key and per
\* pending timer is enough
SessIds == 1..(Cardinality(Keys) + MaxTimers)
HandleIds == 1..(Cardinality(Keys) + MaxTimers)

\* a MenuState object; NoSession marks a free name
NoSession == [live |-> FALSE, menu |-> 0, currentPage |-> 0, history |-> <<>>,
              isAll |-> FALSE, used |-> <<>>, timeoutId |-> 0]

\* session objects still referenced (by a key or by a pending timer's closure)
referenced(W) ==
    ({W.menuStates[k] : k \in Keys} \cup {t.sid : t \in W.timers}) \ {0}

\* timer handles that are neither pending nor held in a session's timeoutId
freeHandles(W) ==
    HandleIds \ ({t.h : t \in W.timers}
                 \cup {W.sessions[i].timeoutId : i \in referenced(W)})

\* The names of the session objects and of the timer handles carry no
\* meaning, so every operation ends by renaming them in a fixed order: the
\* session registered under a key takes the key's position, the sessions only
\* a pending timer still refers to follow in the order of their contents, the
\* pending handles are numbered in the order of their sessions, and a handle
\* that is no longer pending (clearTimeout on it does nothing) becomes Dead.
\* Sessions nothing refers to any more are dropped.
Dead == 0 - 1
at(pairs, x) == (CHOOSE p \in pairs : p[1] = x)[2]
RECURSIVE seqCode(_, _)
seqCode(q, base) == IF q = <<>> THEN 0 ELSE q[1] + 1 + base * seqCode(Tail(q), base)
timerCode(mine) ==
    IF mine = {} THEN 0
    ELSE LET t == CHOOSE x \in mine :
                    \A y \in mine : x.client * 8 + x.menu <= y.client * 8 + y.menu
         IN t.client * 8 + t.menu
sessionCode(st, mine) ==
    ((((seqCode(st.history, 8) * 8 + seqCode(st.used, 8)) * 8 + st.currentPage) * 8
       + st.menu) * 2 + (IF st.isAll THEN 1 ELSE 0)) * 64 + timerCode(mine)
newSids(W, registered, stale, code) ==
    {<<i, 1 + (CHOOSE k \in Keys : W.menuStates[k] = i /\
                  \A o \in Keys : W.menuStates[o] = i => k <= o)>> : i \in registered}
    \cup {<<i, Cardinality(Keys) + 1
               + Cardinality({a \in stale : at(code, a) < at(code, i)
                                            \/ (at(code, a) = at(code, i) /\ a < i)})>> :
            i \in stale}
newHandles(W, sid) ==
    {<<t.h, Cardinality({u \in W.timers :
                           at(sid, u.sid) * (Cardinality(HandleIds) + 1) + u.h
                           <= at(sid, t.sid) * (Cardinality(HandleIds) + 1) + t.h})>> :
       t \in W.timers}
rename(W, sid, h) ==
    LET seen(e) == [e EXCEPT !.sid = IF \E p \in sid : p[1] = @ THEN at(sid, @) ELSE 0]
    IN [W EXCEPT
          !.menuStates = [k \in Keys |-> IF W.menuStates[k] = 0 THEN 0
                                         ELSE at(sid, W.menuStates[k])],
          !.sessions = [j \in SessIds |->
                           IF \E p \in sid : p[2] = j
                           THEN [W.sessions[(CHOOSE p \in sid : p[2] = j)[1]] EXCEPT
                                    !.timeoutId = IF @ = 0 THEN 0
                                                  ELSE IF \E q \in h : q[1] = @
                                                  THEN at(h, @) ELSE Dead]
                           ELSE NoSession],
          !.timers = {[t EXCEPT !.h = at(h, t.h), !.sid = at(sid, t.sid)] : t \in W.timers},
          !.renders = [k \in DOMAIN W.renders |-> seen(W.renders[k])],
          !.callbacks = [k \in DOMAIN W.callbacks |-> seen(W.callbacks[k])]]
renameBy(W, sid) == rename(W, sid, newHandles(W, sid))
renameStale(W, registered, stale) ==
    renameBy(W, newSids(W, registered, stale,
                        {<<i, sessionCode(W.sessions[i], {t \in W.timers : t.sid = i})>> :
                           i \in stale}))
normalize(W) ==
    renameStale(W, {W.menuStates[k] : k \in Keys} \ {0},
                ({t.sid : t \in W.timers} \ {W.menuStates[k] : k \in Keys}))

\* clearTimeout(handle)
clearTimeout(W, h) == [W EXCEPT !.timers = {t \in @ : t.h # h}]

\* cleanupMenuState(client, state)
deleteKey(W, key) == [W EXCEPT !.menuStates[key] = 0]
cleanupMenuState(W, client, sid) ==
    deleteKey(IF W.sessions[sid].timeoutId # 0
              THEN clearTimeout(W, W.sessions[sid].timeoutId) ELSE W,
              IF W.sessions[sid].isAll THEN AllKey ELSE client)

\* the setTimeout call of showMenuInternal: a pending callback over
\* (menu, client, state)
setTimeout(W, menu, client, sid, free) ==
    IF free = {} \/ Cardinality(W.timers) >= MaxTimers
    THEN [W EXCEPT !.overflow = TRUE]
    ELSE LET h == CHOOSE x \in free : \A y \in free : x <= y
         IN [W EXCEPT !.sessions[sid].timeoutId = h,
                      !.timers = @ \cup {[h |-> h, sid |-> sid, menu |-> menu,
                                          client |-> client]}]

\* the msg.send call of showMenuInternal
sent(W, r, render) ==
    [W EXCEPT !.msg = r.m, !.ret = r.ret, !.renders = Append(@, render)]
sendShowMenu(W, menu, client, sid, page, keyMask) ==
    sent(W,
         send(W.msg, W.ret, W.L,
              [type |-> [isName |-> TRUE, id |-> 0, name |-> "ShowMenu"],
               hasDest |-> FALSE, dest |-> 0, entity |-> EntObject(client),
               hasOrigin |-> FALSE, origin |-> <<>>,
               data |-> <<[type |-> "short", value |-> Num(keyMask)],
                          [type |-> "char", value |-> Num(MenuDef(menu).time)],
                          [type |-> "byte", value |-> Bool(FALSE)],
                          [type |-> "string", value |-> Str("menuText")]>>]),
         [client |-> client, menu |-> menu, page |-> page, keyMask |-> keyMask,
          sid |-> sid])

\* faulty variant: the pending timer is left running
clearOldKeep(W, sid) == W

\* showMenuInternal(menu, client, state, page)
clearOld(W, sid) ==
    IF W.sessions[sid].timeoutId # 0 THEN clearTimeout(W, W.sessions[sid].timeoutId) ELSE W
armNew(W, menu, client, sid) ==
    IF MenuDef(menu).time > 0
    THEN setTimeout(W, menu, client, sid,
                    freeHandles([W EXCEPT !.sessions[sid].timeoutId = 0]))
    ELSE W
showMenuInternal(W, menu, client, sid, page) ==
    sendShowMenu(armNew(clearOld([W EXCEPT !.sessions[sid].currentPage = page,
                                           !.sessions[sid].menu = menu],
                                 sid),
                        menu, client, sid),
                 menu, client, sid, page, buildMenuDisplay(MenuDef(menu), page))

\* the body of clients.forEach in show(): a new state object is stored under
\* the key and rendered
newState(W, menu, entity, client, free) ==
    IF free = {} THEN [W EXCEPT !.overflow = TRUE]
    ELSE LET sid == CHOOSE x \in free : \A y \in free : x <= y
         IN showMenuInternal(
                [W EXCEPT !.sessions[sid] =
                              [live |-> TRUE, menu |-> menu, currentPage |-> 0,
                               history |-> <<>>, isAll |-> entity = 0, used |-> <<>>,
                               timeoutId |-> 0],
                          !.menuStates[IF entity # 0 THEN client ELSE AllKey] = sid],
                menu, client, sid, 0)
showTo(W, menu, entity, client) == newState(W, menu, entity, client, SessIds \ referenced(W))

\* show(options): entity is the bound recipient, 0 when the menu has none
RECURSIVE showEach(_, _, _, _, _)
showEach(W, menu, entity, clients, i) ==
    IF i > Len(clients) \/ W.overflow THEN W
    ELSE showEach(showTo(W, menu, entity, clients[i]), menu, entity, clients, i + 1)

show(W, menu, entity) ==
    showEach(W, menu, entity, IF entity # 0 THEN <<entity>> ELSE Players, 1)

\* a menu callback runs: the item handler, onExit, onTimeout
called(W, cb, menu, client, sid) ==
    [W EXCEPT !.callbacks = Append(@, [cb |-> cb, menu |-> menu, client |-> client,
                                       sid |-> sid, all |-> W.sessions[sid].isAll])]

\* handleBackExit(client, state)
handleBackExit(W, client, sid) ==
    IF Len(W.sessions[sid].history) > 0
    THEN showMenuInternal([W EXCEPT !.sessions[sid].history = SubSeq(@, 1, Len(@) - 1)],
                          W.sessions[sid].history[Len(W.sessions[sid].history)],
                          client, sid, 0)
    ELSE called(cleanupMenuState(W, client, sid), "onExit", W.sessions[sid].menu, client, sid)

\* handlePrevPage(client, state)
handlePrevPage(W, client, sid) ==
    IF W.sessions[sid].currentPage > 0
    THEN showMenuInternal([W EXCEPT !.sessions[sid].currentPage = @ - 1],
                          W.sessions[sid].menu, client, sid,
                          W.sessions[sid].currentPage - 1)
    ELSE W

\* faulty variant: the next page is drawn without looking at the page count
handleNextPageUnguarded(W, client, sid) ==
    showMenuInternal([W EXCEPT !.sessions[sid].currentPage = @ + 1],
                     W.sessions[sid].menu, client, sid,
                     W.sessions[sid].currentPage + 1)

\* handleNextPage(client, state)
handleNextPage(W, client, sid) ==
    IF W.sessions[sid].currentPage < totalPagesOf(MenuDef(W.sessions[sid].menu)) - 1
    THEN showMenuInternal([W EXCEPT !.sessions[sid].currentPage = @ + 1],
                          W.sessions[sid].menu, client, sid,
                          W.sessions[sid].currentPage + 1)
    ELSE W

\* faulty variant: the session is destroyed after every handler
runHandlerAlways(W, client, sid) == cleanupMenuState(W, client, sid)

\* the handler branch of handleItemSelection: used.push, the handler inside
\* try/catch (a throw or a rejected promise is logged), cleanup unless 'all'
runHandler(W, client, sid) ==
    IF W.sessions[sid].isAll THEN W ELSE cleanupMenuState(W, client, sid)
\* item.handler(client, state.menu): a handler of kind "show" calls
\* show() with menu HandlerMenu bound to the client that pressed the key
HandlerMenu == 1
handlerBody(W, handler, client) ==
    IF handler = "show" THEN show(W, HandlerMenu, client) ELSE W
executeHandler(W, client, sid, st, handler) ==
    IF Len(st.used) >= MaxUsed THEN [W EXCEPT !.overflow = TRUE]
    ELSE runHandler(handlerBody(called([W EXCEPT !.sessions[sid].used = Append(@, client)],
                                       "handler", st.menu, client, sid),
                                handler, client),
                    client, sid)

\* faulty variant: the handler of an item wins over its submenu
selectItemHandlerFirst(W, client, sid, st, item) ==
    IF item.disabled THEN W
    ELSE IF item.handler # "none" THEN executeHandler(W, client, sid, st, item.handler)
    ELSE IF item.submenu # 0
    THEN showMenuInternal([W EXCEPT !.sessions[sid].history = Append(@, st.menu)],
                          item.submenu, client, sid, 0)
    ELSE W

\* handleItemSelection(client, state, selection) once the item is found
selectItem(W, client, sid, st, item) ==
    IF item.disabled THEN W
    ELSE IF item.submenu # 0
    THEN showMenuInternal([W EXCEPT !.sessions[sid].history = Append(@, st.menu)],
                          item.submenu, client, sid, 0)
    ELSE IF item.handler # "none" THEN executeHandler(W, client, sid, st, item.handler)
    ELSE W

\* handleItemSelection(client, state, selection): items[itemIndex] is
\* undefined for NaN and for an index outside the list
itemAt(W, client, sid, st, items, itemIndex) ==
    IF itemIndex >= 0 /\ itemIndex < Len(items)
    THEN selectItem(W, client, sid, st, items[itemIndex + 1])
    ELSE W
handleItemSelection(W, client, sid, selection) ==
    IF selection.nan THEN W
    ELSE itemAt(W, client, sid, W.sessions[sid], MenuDef(W.sessions[sid].menu).items,
                (W.sessions[sid].currentPage * ITEMS_PER_PAGE) + (selection.n - 1))

\* text.split(' ')
RECURSIVE splitLoop(_, _, _, _)
splitLoop(text, i, parts, cur) ==
    IF i > Len(text) THEN Append(parts, cur)
    ELSE IF text[i] = SPACE THEN splitLoop(text, i + 1, Append(parts, cur), <<>>)
    ELSE splitLoop(text, i + 1, parts, Append(cur, text[i]))
split(text) == splitLoop(text, 1, <<>>, <<>>)

\* parseInt(s): an optional sign, then the leading digits; NaN without digits
NaN == [nan |-> TRUE, n |-> 0]
Digits == <<"0", "1", "2", "3", "4", "5", "6", "7", "8", "9">>
IsDigit(c) == \E d \in 1..10 : Digits[d] = c
DigitVal(c) == (CHOOSE d \in 1..10 : Digits[d] = c) - 1
RECURSIVE digitsValue(_, _, _)
digitsValue(s, i, acc) ==
    IF i > Len(s) \/ ~IsDigit(s[i]) THEN acc
    ELSE digitsValue(s, i + 1, acc * 10 + DigitVal(s[i]))
unsigned(body, negative) ==
    IF Len(body) = 0 \/ ~IsDigit(body[1]) THEN NaN
    ELSE [nan |-> FALSE,
          n |-> IF negative THEN 0 - digitsValue(body, 1, 0) ELSE digitsValue(body, 1, 0)]
parseInt(s) ==
    IF Len(s) > 0 /\ s[1] \in {"-", "+"} THEN unsigned(Tail(s), s[1] = "-")
    ELSE unsigned(s, FALSE)

menuselect == <<"m", "e", "n", "u", "s", "e", "l", "e", "c", "t">>

\* handleMenuCommand(client, text) from the lookup of the state on
navigate(W, client, sid, selection) ==
    IF ~selection.nan /\ selection.n \in {0, 10} THEN handleBackExit(W, client, sid)
    ELSE IF ~selection.nan /\ selection.n = 8 THEN handlePrevPage(W, client, sid)
    ELSE IF ~selection.nan /\ selection.n = 9 THEN handleNextPage(W, client, sid)
    ELSE handleItemSelection(W, client, sid, selection)
menuCommand(W, client, args, sid) ==
    IF args[1] # menuselect THEN W
    ELSE IF sid = 0 THEN W
    ELSE navigate([W EXCEPT !.meta = SUPERCEDE], client, sid,
                  IF Len(args) >= 2 THEN parseInt(args[2]) ELSE NaN)

\* faulty variant: only the sender's own session is looked up
handleMenuCommandOwnOnly(W, client, text) ==
    menuCommand(W, client, split(text), W.menuStates[client])

\* handleMenuCommand(client, text): the menu's dllClientCommand listener
handleMenuCommand(W, client, text) ==
    menuCommand(W, client, split(text),
                IF W.menuStates[client] # 0 THEN W.menuStates[client]
                ELSE W.menuStates[AllKey])

\* faulty variant: the callback leaves the session registered
timeoutCallbackKeepsKey(W, t) ==
    called([W EXCEPT !.timers = @ \ {t}], "onTimeout", t.menu, t.client, t.sid)

\* the setTimeout callback armed by showMenuInternal
timeoutCallback(W, t) ==
    cleanupMenuState(called([W EXCEPT !.timers = @ \ {t}], "onTimeout", t.menu, t.client,
                            t.sid),
                     t.client, t.sid)

\* closeMenu(client)
closeMenu(W, client) ==
    IF W.menuStates[client] # 0 THEN cleanupMenuState(W, client, W.menuStates[client])
    ELSE IF W.menuStates[AllKey] # 0 THEN cleanupMenuState(W, client, W.menuStates[AllKey])
    ELSE W

\* closeAllMenus()
closeAllMenus(W) ==
    [W EXCEPT !.timers = {t \in @ : t.h \notin
                             {W.sessions[W.menuStates[k]].timeoutId :
                                k \in {o \in Keys : W.menuStates[o] # 0}}},
              !.menuStates = [k \in Keys |-> 0]]

\* ------------------------------------------------- construction states
MsgNames == {"TextMsg", "ShowMenu"}

InitTokIdle == tokIn = <<>> /\ tokOut = <<>> /\ tokDone = FALSE
InitBmdIdle == bmdMenu = [items |-> <<>>] /\ bmdPage = 0 /\ bmdMask = 0 /\ bmdDone = FALSE

\* new NodemodMsg()
InitMsgIdle ==
    /\ listeners = [pre |-> [n \in MsgNames |-> <<>>], post |-> [n \in MsgNames |-> <<>>]]
    /\ state = <<>>
    /\ registeredEventTypes = <<>>
    /\ msgPhase = "idle"
    /\ calls = <<>>
    /\ wire = <<>>
    /\ emitted = <<>>
    /\ sendOptions = <<>>

\* new NodemodCmd()
InitCmdIdle ==
    /\ commands = <<>>
    /\ nativeCommands = <<>>
    /\ ran = <<>>
    /\ escaped = FALSE


\* new NodemodMenu(msg, util)
InitMenuIdle ==
    /\ menuStates = [k \in Keys |-> 0]
    /\ sessions = [i \in SessIds |-> NoSession]
    /\ timers = {}
    /\ renders = <<>>
    /\ callbacks = <<>>

\* =====================================================================
\* SpecTok: parseCommand applied to every bounded raw text
\* =====================================================================
TokAlphabet == {"a", "b", SPACE, QUOTE}
ExampleQuoted == <<"a", SPACE, QUOTE, "b", SPACE, "c", QUOTE, SPACE, "d">>
ExampleUnmatched == <<"a", SPACE, QUOTE, "b", SPACE, "c">>
TokInputs == SeqsUpTo(TokAlphabet, MaxLen) \cup {ExampleQuoted, ExampleUnmatched}

InitTok ==
    /\ tokIn \in TokInputs
    /\ tokOut = <<>>
    /\ tokDone = FALSE
    /\ InitBmdIdle /\ metaResult = IGNORED /\ InitMsgIdle /\ InitCmdIdle
    /\ InitMenuIdle

ParseCommand ==
    /\ ~tokDone
    /\ tokOut' = parseCommand(tokIn)
    /\ tokDone' = TRUE
    /\ UNCHANGED <<tokIn, varsBmd, metaResult, varsMsg, varsCmd, varsMenu>>

NextTok == ParseCommand
SpecTok == InitTok /\ [][NextTok]_vars

\* =====================================================================
\* SpecBmd: buildMenuDisplay applied to every bounded menu and page
\* =====================================================================
ItemKinds == [handler : {"none", "ok"}, submenu : {0, 1}, disabled : BOOLEAN]

\* a menu of n items whose kinds repeat the pattern pat
PatternMenu(n, pat) == [items |-> [i \in 1..n |-> pat[((i - 1) % PatLen) + 1]]]

InitBmd ==
    /\ \E n \in 0..MaxItems, pat \in [1..PatLen -> ItemKinds] :
          bmdMenu = PatternMenu(n, pat)
    /\ bmdPage \in 0..(IF totalPagesOf(bmdMenu) = 0 THEN 0 ELSE totalPagesOf(bmdMenu) - 1)
    /\ bmdMask = 0
    /\ bmdDone = FALSE
    /\ InitTokIdle /\ metaResult = IGNORED /\ InitMsgIdle /\ InitCmdIdle
    /\ InitMenuIdle

BuildMenuDisplay ==
    /\ ~bmdDone
    /\ bmdMask' = buildMenuDisplay(bmdMenu, bmdPage)
    /\ bmdDone' = TRUE
    /\ UNCHANGED <<bmdMenu, bmdPage, varsTok, metaResult, varsMsg, varsCmd, varsMenu>>

NextBmd == BuildMenuDisplay
SpecBmd == InitBmd /\ [][NextBmd]_vars

\* =====================================================================
\* SpecMsg: the interceptor and the sender
\* =====================================================================
\* the interceptor's fields as one record, and back
mrec == [state |-> state, calls |-> calls, wire |-> wire, emitted |-> emitted,
         meta |-> metaResult]
SetMsg(m) ==
    /\ state' = m.state
    /\ calls' = m.calls
    /\ wire' = m.wire
    /\ emitted' = m.emitted

NListeners ==
    LET RECURSIVE total(_)
        total(S) == IF S = {} THEN 0
                    ELSE LET n == CHOOSE x \in S : TRUE
                         IN Len(listeners.pre[n]) + Len(listeners.post[n]) + total(S \ {n})
    IN total(MsgNames)

Kinds == {"byte", "string", "entity"}
FieldSet == {[type |-> "byte", value |-> Num(4)],
             [type |-> "string", value |-> Str("hi")],
             [type |-> "entity", value |-> EntV(1)]}
TypeSet == {[isName |-> FALSE, id |-> 1, name |-> ""],
            [isName |-> TRUE, id |-> 0, name |-> "ShowMenu"],
            [isName |-> FALSE, id |-> MsgTypes_bad, name |-> ""],
            [isName |-> TRUE, id |-> 0, name |-> "Bad"]}
DestSet == {[hasDest |-> FALSE, dest |-> 0], [hasDest |-> TRUE, dest |-> MsgDest_one],
            [hasDest |-> TRUE, dest |-> MsgDest_all]}
EntitySet == {NoEntity, EntIndex(1), EntObject(2)}
OriginSet == {[hasOrigin |-> FALSE, origin |-> <<>>],
              [hasOrigin |-> TRUE, origin |-> <<1, 2, 3>>]}
\* the options objects send() is called with
SendOptions ==
    {[type |-> t, hasDest |-> d.hasDest, dest |-> d.dest, entity |-> e,
      hasOrigin |-> o.hasOrigin, origin |-> o.origin, data |-> data] :
        t \in TypeSet, d \in DestSet, e \in EntitySet, o \in OriginSet,
        data \in SeqsUpTo(FieldSet, MaxFields)}
\* the options objects a listener calls send() with
NestedOptions ==
    {[type |-> [isName |-> FALSE, id |-> t, name |-> ""], hasDest |-> FALSE, dest |-> 0,
      entity |-> NoEntity, hasOrigin |-> FALSE, origin |-> <<>>,
      data |-> <<[type |-> "byte", value |-> Num(7)]>>] : t \in {1, 2}}
\* destination and recipient of the messages the host itself begins
BeginSet == {<<MsgDest_all, NoEntity>>, <<MsgDest_one, EntObject(1)>>}

InitMsg ==
    /\ InitTokIdle /\ InitBmdIdle /\ metaResult = IGNORED /\ InitMsgIdle /\ InitCmdIdle
    /\ InitMenuIdle

\* msg.on(name, fn) / msg.on(`post:${name}`, fn): the newListener hook
\* resolves the name, then the listener is added
On(label, name, beh) ==
    /\ msgPhase = "idle"
    /\ calls = <<>> /\ sendOptions = <<>>
    /\ NListeners < MaxListeners
    /\ label = "post" => beh = "ok"
    /\ registeredEventTypes' = getUserMsgId(registeredEventTypes, name).ret
    /\ listeners' = [listeners EXCEPT ![label][name] = Append(@, beh)]
    /\ UNCHANGED <<state, msgPhase, calls, wire, emitted, sendOptions, metaResult>>
    /\ UNCHANGED <<varsTok, varsBmd, varsCmd, varsMenu>>

\* the host (game code) begins a message: engMessageBegin.  One message is
\* followed per behaviour: its logs are what the claims read.
ExtBegin(dest, type, entity) ==
    /\ msgPhase = "idle"
    /\ calls = <<>> /\ sendOptions = <<>>
    /\ LET m == hostMessageBegin(mrec, listeners, dest, type, <<0, 0, 0>>, entity, "host")
       IN SetMsg(m) /\ metaResult' = m.meta
    /\ msgPhase' = "open"
    /\ UNCHANGED <<listeners, registeredEventTypes, sendOptions>>
    /\ UNCHANGED <<varsTok, varsBmd, varsCmd, varsMenu>>

\* the host writes one field: engWriteByte, engWriteString, engWriteEntity, ...
ExtWrite(f) ==
    /\ msgPhase = "open"
    /\ Len(calls) <= MaxFields
    /\ LET m == hostWrite(mrec, f.type, f.value, "host")
       IN SetMsg(m) /\ metaResult' = m.meta
    /\ UNCHANGED <<listeners, registeredEventTypes, msgPhase, sendOptions>>
    /\ UNCHANGED <<varsTok, varsBmd, varsCmd, varsMenu>>

\* the host ends the message: engMessageEnd, then the primitive itself
ExtEnd ==
    /\ msgPhase = "open"
    /\ LET m == hostMessageEnd(mrec, listeners, "host")
       IN SetMsg(m) /\ metaResult' = m.meta
    /\ msgPhase' = "ended"
    /\ UNCHANGED <<listeners, registeredEventTypes, sendOptions>>
    /\ UNCHANGED <<varsTok, varsBmd, varsCmd, varsMenu>>

\* the host ends the message, and the first pre listener of the message
\* calls msg.send(options) from its body
ExtEndSending(options) ==
    /\ msgPhase = "open"
    /\ state # <<>>
    /\ listenersOf(listeners, "pre", state[1].name) # <<>>
    /\ listenersOf(listeners, "pre", state[1].name)[1] = "ok"
    /\ \E r \in {hostMessageEndSending(mrec, registeredEventTypes, listeners, "host",
                                        options)} :
          SetMsg(r.m) /\ metaResult' = r.m.meta /\ registeredEventTypes' = r.ret
    /\ msgPhase' = "ended"
    /\ UNCHANGED <<listeners, sendOptions>>
    /\ UNCHANGED <<varsTok, varsBmd, varsCmd, varsMenu>>

\* postEngMessageEnd
ExtPostEnd ==
    /\ msgPhase = "ended"
    /\ LET m == hostPostMessageEnd(mrec, listeners)
       IN SetMsg(m) /\ metaResult' = m.meta
    /\ msgPhase' = "idle"
    /\ UNCHANGED <<listeners, registeredEventTypes, sendOptions>>
    /\ UNCHANGED <<varsTok, varsBmd, varsCmd, varsMenu>>

\* msg.send(options), called outside any hook
Send(options) ==
    /\ msgPhase = "idle"
    /\ calls = <<>> /\ sendOptions = <<>>
    /\ LET r == send(mrec, registeredEventTypes, listeners, options)
       IN SetMsg(r.m) /\ registeredEventTypes' = r.ret
    /\ sendOptions' = <<options>>
    /\ UNCHANGED <<listeners, msgPhase, metaResult>>
    /\ UNCHANGED <<varsTok, varsBmd, varsCmd, varsMenu>>

NextMsg ==
    \/ \E label \in {"pre", "post"}, name \in MsgNames, beh \in {"ok", "throw"} :
          On(label, name, beh)
    \/ \E type \in {1, 2}, de \in BeginSet : ExtBegin(de[1], type, de[2])
    \/ \E f \in FieldSet : ExtWrite(f)
    \/ ExtEnd
    \/ \E options \in NestedOptions : ExtEndSending(options)
    \/ ExtPostEnd
    \/ \E options \in SendOptions : Send(options)

SpecMsg == InitMsg /\ [][NextMsg]_vars

\* =====================================================================
\* The input tick and the operations of cmd and menu
\* =====================================================================
\* the menu service's fields, with the services it calls, as one record
Wrec == [menuStates |-> menuStates, sessions |-> sessions, timers |-> timers,
         renders |-> <<>>, callbacks |-> <<>>, overflow |-> FALSE,
         meta |-> metaResult,
         msg |-> [mrec EXCEPT !.calls = <<>>, !.wire = <<>>, !.emitted = <<>>],
         ret |-> registeredEventTypes, L |-> listeners]
SetMenu(W) ==
    /\ ~W.overflow
    /\ \E N \in {normalize(W)} :
          /\ menuStates' = N.menuStates
          /\ sessions' = N.sessions
          /\ timers' = N.timers
          /\ renders' = N.renders
          /\ callbacks' = N.callbacks
    /\ SetMsg(W.msg)
    /\ registeredEventTypes' = W.ret

\* cmd.add(options), also through register / registerClient / registerServer
Add(options) ==
    /\ Len(commands) < MaxCmds
    /\ commands' = Append(commands, [name |-> options.name, type |-> options.type,
                                     handler |-> options.handler,
                                     reg |-> Len(commands) + 1])
    /\ nativeCommands' = IF options.type \in {"server", "console"}
                         THEN Append(nativeCommands, options.name) ELSE nativeCommands
    /\ ran' = <<>> /\ escaped' = FALSE
    /\ UNCHANGED metaResult
    /\ UNCHANGED <<varsTok, varsBmd, varsMsg, varsMenu>>

\* the engine runs the wrapper given to addServerCommand: the handler runs
\* inside try/catch
ServerCommand(i) ==
    /\ i \in 1..Len(commands)
    /\ commands[i].type \in {"server", "console"}
    /\ ran' = <<commands[i].reg>>
    /\ escaped' = FALSE
    /\ UNCHANGED <<commands, nativeCommands, metaResult>>
    /\ UNCHANGED <<varsTok, varsBmd, varsMsg, varsMenu>>

\* the host raises dllClientCommand(client, text) with the signal at entry:
\* the listener of NodemodCmd runs, then the listener of NodemodMenu (the
\* order of construction).  Whether the host still calls the second listener
\* after an exception left the first is the host's choice.
ClientCommand(client, text, entry, goesOn) ==
    \E d \in {dllClientCommand(commands, entry, text)} :
       /\ ~d.threw => goesOn
       /\ \E W \in {IF d.threw /\ ~goesOn THEN [Wrec EXCEPT !.meta = d.meta]
                     ELSE handleMenuCommand([Wrec EXCEPT !.meta = d.meta], client, text)} :
             SetMenu(W) /\ metaResult' = W.meta
       /\ ran' = d.ran
       /\ escaped' = d.threw
       /\ UNCHANGED <<commands, nativeCommands, listeners, msgPhase, sendOptions>>
       /\ UNCHANGED <<varsTok, varsBmd>>

\* menu.show(options)
Show(menu, entity) ==
    /\ SetMenu(show(Wrec, menu, entity))
    /\ UNCHANGED <<metaResult, listeners, msgPhase, sendOptions>>
    /\ UNCHANGED <<varsTok, varsBmd, varsCmd>>

\* a pending timer expires and the event loop runs its callback
TimerFire(t) ==
    /\ t \in timers
    /\ SetMenu(timeoutCallback(Wrec, t))
    /\ UNCHANGED <<metaResult, listeners, msgPhase, sendOptions>>
    /\ UNCHANGED <<varsTok, varsBmd, varsCmd>>

\* menu.closeMenu(client)
CloseMenu(client) ==
    /\ SetMenu(closeMenu(Wrec, client))
    /\ UNCHANGED <<metaResult, listeners, msgPhase, sendOptions>>
    /\ UNCHANGED <<varsTok, varsBmd, varsCmd>>

\* menu.closeAllMenus()
CloseAllMenus ==
    /\ SetMenu(closeAllMenus(Wrec))
    /\ UNCHANGED <<metaResult, listeners, msgPhase, sendOptions>>
    /\ UNCHANGED <<varsTok, varsBmd, varsCmd>>

InitCore ==
    /\ InitTokIdle /\ InitBmdIdle /\ metaResult = IGNORED /\ InitMsgIdle /\ InitCmdIdle
    /\ InitMenuIdle

\* =====================================================================
\* SpecCmd: registrations and client inputs
\* =====================================================================
CmdTypes == {"client", "console", "server"}
\* v is the number returned, and for a promise the number it resolves to
Handlers == {[k |-> "void", v |-> 0], [k |-> "promise", v |-> SUPERCEDE],
             [k |-> "throw", v |-> 0],
             [k |-> "num", v |-> HANDLED], [k |-> "num", v |-> SUPERCEDE]}
CmdTexts == {<<"k">>, <<QUOTE, "j", QUOTE, SPACE, "x">>, <<"z">>, <<>>}
\* the registrations tried: every type and handler under the name k, and two
\* suppressing registrations under the name j
AddOptions ==
    {[name |-> <<"k">>, type |-> type, handler |-> handler] :
        type \in CmdTypes, handler \in Handlers}
    \cup {[name |-> <<"j">>, type |-> type, handler |-> [k |-> "num", v |-> SUPERCEDE]] :
            type \in {"client", "console"}}

NextCmd ==
    \/ \E options \in AddOptions : Add(options)
    \/ \E i \in 1..MaxCmds : ServerCommand(i)
    \/ \E text \in CmdTexts, entry \in {IGNORED, SUPERCEDE}, goesOn \in BOOLEAN :
          ClientCommand(1, text, entry, goesOn)

SpecCmd == InitCore /\ [][NextCmd]_vars

\* =====================================================================
\* SpecMenu: menus shown, keys pressed, timers expiring
\* =====================================================================
KeyArgs == {<<"0">>, <<"1">>, <<"2">>, <<"3">>, <<"4">>, <<"5">>, <<"6">>, <<"7">>,
            <<"8">>, <<"9">>, <<"1", "0">>, <<"1", "1">>, <<"-", "1">>, <<"x">>}
KeyTexts == {menuselect \o <<SPACE>> \o a : a \in KeyArgs} \cup {menuselect, <<"k">>}

TimerRecs ==
    {[h |-> h, sid |-> sid, menu |-> menu, client |-> client] :
        h \in HandleIds, sid \in SessIds, menu \in MenuIds, client \in Clients}

NextMenu ==
    \/ \E menu \in MenuIds, entity \in {0} \cup Clients : Show(menu, entity)
    \/ \E client \in Clients, text \in KeyTexts :
          ClientCommand(client, text, IGNORED, TRUE)
    \/ \E t \in TimerRecs : TimerFire(t)
    \/ \E client \in Clients : CloseMenu(client)
    \/ CloseAllMenus

SpecMenu == InitCore /\ [][NextMenu]_vars

\* =====================================================================
\* Claims
\* =====================================================================

\* ---- C5 reference tokenizer: the text is cut at the spaces that have an
\* even number of quotes before them, quotes are deleted from each piece and
\* empty pieces are dropped.
QuotesBefore(s, i) == Cardinality({j \in 1..(i - 1) : s[j] = QUOTE})
Separators(s) == {i \in 1..Len(s) : s[i] = SPACE /\ QuotesBefore(s, i) % 2 = 0}
NotQuote(c) == c # QUOTE
RefTokens(s) ==
    LET cuts == Separators(s) \cup {0, Len(s) + 1}
        nxt(lo) == CHOOSE hi \in cuts : hi > lo /\ \A k \in cuts : k > lo => hi <= k
        piece(lo) == SelectSeq(SubSeq(s, lo + 1, nxt(lo) - 1), NotQuote)
        RECURSIVE from(_)
        from(lo) == IF lo = Len(s) + 1 THEN <<>>
                    ELSE (IF piece(lo) # <<>> THEN <<piece(lo)>> ELSE <<>>) \o from(nxt(lo))
    IN from(0)

\* C5: parseCommand returns the reference tokenization of every raw text:
\* no token is empty or holds a quote, 'a "b c" d' gives a, b c, d, the empty
\* text gives no token and an unmatched quote yields the remainder as one token.
C5_Tokenizer ==
    tokDone =>
        /\ tokOut = RefTokens(tokIn)
        /\ \A k \in 1..Len(tokOut) :
              tokOut[k] # <<>> /\ \A j \in 1..Len(tokOut[k]) : tokOut[k][j] # QUOTE
        /\ (tokIn = ExampleQuoted => tokOut = <<(<<"a">>), <<"b", SPACE, "c">>, (<<"d">>)>>)
        /\ (tokIn = <<>> => tokOut = <<>>)
        /\ (tokIn = ExampleUnmatched => tokOut = <<(<<"a">>), <<"b", SPACE, "c">>>>)

C5_Witness == tokDone /\ tokIn = ExampleQuoted /\ Len(tokOut) = 3

IsWrite(c) == c.op = "write"
IsWritten(c) == c.op = "write" /\ c.by # "replay"
BySend(c) == c.by = "send"
ByReplay(c) == c.by = "replay"
\* the kind and serialized value of each call of a log
Fields(log) == [k \in 1..Len(log) |-> [kind |-> Executed(log[k]).kind,
                                       value |-> Executed(log[k]).value]]
MessageEnded == Len(wire) > 0 /\ wire[Len(wire)].op = "end"
MessageName == getUserMsgName(wire[1].type)
HasListeners(name) ==
    Len(listenersOf(listeners, "pre", name)) + Len(listenersOf(listeners, "post", name)) > 0

\* C1: once the end of a message has been executed, the writes the host
\* really executed are exactly the written fields (kind and value), in
\* arrival order, each once: whatever listeners are registered.
C1_ReplayExact ==
    MessageEnded =>
        Fields(SelectSeq(wire, IsWrite)) = Fields(SelectSeq(calls, IsWritten))

\* C2: while a message raised by the host is between begin and end, a capture
\* is open iff a pre or post listener is registered for its name; with no
\* listener for the name every write stays with the host (result code IGNORED,
\* the write executed) and no listener is invoked at end or post-end.
C2_CaptureIffListener ==
    /\ msgPhase = "open" =>
          /\ (state # <<>>) <=> HasListeners(MessageName)
          /\ state # <<>> => state[1].name = MessageName
    /\ (Len(wire) > 0 /\ ~HasListeners(MessageName)) =>
          /\ state = <<>>
          /\ emitted = <<>>
          /\ SelectSeq(calls, ByReplay) = <<>>
          /\ Fields(SelectSeq(wire, IsWrite)) = Fields(SelectSeq(calls, IsWritten))
          /\ msgPhase = "open" => metaResult = IGNORED

C2_Witness ==
    /\ msgPhase = "open" /\ MessageName = "TextMsg" /\ ~HasListeners("TextMsg")
    /\ HasListeners("ShowMenu")
    /\ Len(SelectSeq(wire, IsWrite)) = 2 /\ state = <<>>

HeadOf(text) == IF Len(parseCommand(text)) > 0 THEN <<parseCommand(text)[1]>> ELSE <<>>
Named(cmds, text) ==
    LET named(v) == HeadOf(text) # <<>> /\ v.name = HeadOf(text)[1]
    IN SelectSeq(cmds, named)
IsClientReg(v) == v.type = "client"
IsConsoleReg(v) == v.type = "console"
SetsNoCode(v) == v.handler.k \in {"void", "promise", "throw"}
\* the signal a handler leaves behind
SignalAfter(h, signal) == IF h.k \in {"num", "set"} THEN h.v ELSE signal
RECURSIVE RefRun(_, _, _)
RefRun(regs, i, signal) ==
    IF i > Len(regs) THEN <<>>
    ELSE <<regs[i].reg>> \o
         (IF SignalAfter(regs[i].handler, signal) = SUPERCEDE THEN <<>>
          ELSE RefRun(regs, i + 1, SignalAfter(regs[i].handler, signal)))

\* C3: for a client input served with a neutral signal the dispatcher runs
\* the client-context registrations of the command name in registration
\* order, then its console-context registrations in registration order, and
\* stops right after the first handler that leaves the signal at suppress.
C3_HandlerOrder ==
    [][\A text \in CmdTexts, goesOn \in BOOLEAN :
          ClientCommand(1, text, IGNORED, goesOn) =>
             ran' = RefRun(SelectSeq(Named(commands, text), IsClientReg)
                           \o SelectSeq(Named(commands, text), IsConsoleReg), 1, IGNORED)]_vars

\* C4: when the command name of a client input has console- or
\* server-context registrations only and none of their handlers sets a result
\* code, the signal equals suppress after the dispatch.
C4_ConsoleOnlySuppressed ==
    [][\A text \in CmdTexts, goesOn \in BOOLEAN :
          (/\ Named(commands, text) # <<>>
           /\ SelectSeq(Named(commands, text), IsClientReg) = <<>>
           /\ \A k \in 1..Len(Named(commands, text)) : SetsNoCode(Named(commands, text)[k])
           /\ ClientCommand(1, text, IGNORED, goesOn))
          => metaResult' = SUPERCEDE]_vars

\* ---- the menu claims
Key(arg) == menuselect \o <<SPACE>> \o arg
SlotKeys == {<<Digits[k + 1]>> : k \in 1..7}
SlotOf(arg) == DigitVal(arg[1])
BackKeys == {<<"0">>, <<"1", "0">>}
\* the key under which the session a keypress of client c acts on is stored
KeyOf(c) == IF menuStates[c] # 0 THEN c ELSE AllKey
SessionOf(c) == sessions[menuStates[KeyOf(c)]]
OwnerKey(t) == IF sessions[t.sid].isAll THEN AllKey ELSE t.client

\* C6: every pending timer belongs to the session that is registered under
\* its key: a session is never replaced or torn down with its timer pending.
C6_TimersOwned == \A t \in timers : menuStates[OwnerKey(t)] = t.sid

\* C7: when the timer of a menu shown to one recipient has expired, onTimeout
\* was invoked exactly once and nothing was drawn, no session is left for the
\* recipient, and the session is referred to by no key and no pending timer;
\* a show() to a recipient, in whatever state it is called, registers a
\* session at page 0 with empty history, drawn once at page 0.
ShownFresh(W, menu, c) ==
    /\ W.menuStates[c] # 0
    /\ W.sessions[W.menuStates[c]].menu = menu
    /\ W.sessions[W.menuStates[c]].currentPage = 0
    /\ W.sessions[W.menuStates[c]].history = <<>>
    /\ ~W.sessions[W.menuStates[c]].isAll
    /\ Len(W.renders) = 1
    /\ W.renders[1].page = 0 /\ W.renders[1].menu = menu /\ W.renders[1].client = c
    /\ W.renders[1].sid = W.menuStates[c]
Entered(W, c, before, item) ==
    /\ W.menuStates[KeyOf(c)] = menuStates[KeyOf(c)]
    /\ W.sessions[W.menuStates[KeyOf(c)]].menu = item.submenu
    /\ W.sessions[W.menuStates[KeyOf(c)]].currentPage = 0
    /\ W.sessions[W.menuStates[KeyOf(c)]].history = Append(before.history, before.menu)
    /\ W.callbacks = <<>>
    /\ Len(W.renders) = 1
    /\ W.renders[1].menu = item.submenu /\ W.renders[1].page = 0
    /\ W.renders[1].client = c
WentBack(W, c, before) ==
    IF before.history # <<>>
    THEN /\ W.menuStates[KeyOf(c)] = menuStates[KeyOf(c)]
         /\ W.sessions[W.menuStates[KeyOf(c)]].menu = before.history[Len(before.history)]
         /\ W.sessions[W.menuStates[KeyOf(c)]].history
               = SubSeq(before.history, 1, Len(before.history) - 1)
         /\ W.sessions[W.menuStates[KeyOf(c)]].currentPage = 0
         /\ W.callbacks = <<>>
         /\ Len(W.renders) = 1
         /\ W.renders[1].menu = before.history[Len(before.history)]
         /\ W.renders[1].page = 0 /\ W.renders[1].client = c
    ELSE /\ W.menuStates[KeyOf(c)] = 0
         /\ Len(W.callbacks) = 1 /\ W.callbacks[1].cb = "onExit"
         /\ W.renders = <<>>
ResolvedType(o) ==
    IF o.type.isName THEN getUserMsgId(registeredEventTypes, o.type.name).id
    ELSE o.type.id

C11_FailedSendNoOp ==
    /\ \A o \in SendOptions :
          ResolvedType(o) = MsgTypes_bad =>
             send(mrec, registeredEventTypes, listeners, o) =
                [m |-> mrec, ret |-> registeredEventTypes, sent |-> FALSE]
    /\ (sendOptions # <<>> /\ ResolvedType(sendOptions[1]) = MsgTypes_bad) =>
          calls = <<>> /\ wire = <<>> /\ emitted = <<>> /\ state = <<>>

C11_Witness ==
    /\ sendOptions # <<>>
    /\ sendOptions[1].type.isName /\ sendOptions[1].type.name = "Bad"
    /\ Len(sendOptions[1].data) = 2
    /\ HasListeners("ShowMenu") /\ HasListeners("TextMsg")
    /\ calls = <<>>

\* ---- C12: when the signal already equals suppress as the dispatcher's
\* input listener is entered, the listener runs no registered handler, lets no
\* exception escape and leaves the signal at suppress, whatever is registered
\* under the command name.
C12_SuppressedAtEntry ==
    [][\A text \in CmdTexts, goesOn \in BOOLEAN :
          ClientCommand(1, text, SUPERCEDE, goesOn) =>
             /\ dllClientCommand(commands, SUPERCEDE, text)
                   = [meta |-> SUPERCEDE, ran |-> <<>>, threw |-> FALSE]
             /\ ran' = <<>> /\ ~escaped' /\ metaResult' = SUPERCEDE]_vars

C12_Witness ==
    /\ metaResult = SUPERCEDE /\ ran = <<>> /\ ~escaped
    /\ Len(commands) = 2
    /\ \A i \in 1..Len(commands) : commands[i].handler.k \in {"void", "throw"}
    /\ \E text \in CmdTexts : Len(dllClientCommand(commands, IGNORED, text).ran) = 2

\* ---- C13: in every state, a client command whose first word is menuselect
\* leaves the signal at suppress, for every sender, whether or not a session
\* is registered under the sender's key or under the 'all' key.
IsMenuselect(text) == split(text)[1] = menuselect
C13_MenuselectSuppressed ==
    \A c \in Clients, text \in KeyTexts :
       IsMenuselect(text) =>
          \/ handleMenuCommand(Wrec, c, text).overflow
          \/ handleMenuCommand(Wrec, c, text).meta = SUPERCEDE

\* ---- C14: in every state with an open capture, the end event re-emits
\* every captured field (kind and value, in order) to the host's write
\* primitives, whether the pre listeners return or throw, and the post-end
\* event that follows leaves no capture.
Captured(st) ==
    [k \in 1..Len(st.rawData) |->
        WriteCall(st.rawData[k].type, st.rawData[k].value, "replay")]
C14_ReplayDespiteListeners ==
    (state # <<>> /\ ~state[1].isMessageEnd) =>
        /\ Fields(SelectSeq(hostMessageEnd(mrec, listeners, "host").calls, ByReplay))
              = Fields(Captured(state[1]))
        /\ hostPostMessageEnd(hostMessageEnd(mrec, listeners, "host"), listeners).state
              = <<>>

\* ---- C15: when a handler throws during the dispatch of a client input
\* served with a neutral signal, no exception leaves the listener, the
\* matching handlers after the throwing one still run in order, and a command
\* with console-context registrations only, none of which sets a result code,
\* still ends with the signal at suppress.
Throws(v) == v.handler.k = "throw"
Dispatched(text) ==
    SelectSeq(Named(commands, text), IsClientReg)
       \o SelectSeq(Named(commands, text), IsConsoleReg)
C15_HandlerErrorsCaught ==
    [][\A text \in CmdTexts, goesOn \in BOOLEAN :
          (/\ \E k \in 1..Len(Dispatched(text)) : Throws(Dispatched(text)[k])
           /\ ClientCommand(1, text, IGNORED, goesOn))
          => /\ ~escaped'
             /\ ran' = RefRun(Dispatched(text), 1, IGNORED)
             /\ (/\ SelectSeq(Named(commands, text), IsClientReg) = <<>>
                 /\ \A k \in 1..Len(Dispatched(text)) : SetsNoCode(Dispatched(text)[k]))
                => metaResult' = SUPERCEDE]_vars

\* ---- C16: when the command name of a client input served with a neutral
\* signal has at least one client-context registration and no handler that
\* runs returns a code, the signal after the dispatch is still neutral, also
\* when console-context registrations of the same name ran.
C16_ClientContextPassesThrough ==
    [][\A text \in CmdTexts, goesOn \in BOOLEAN :
          (/\ SelectSeq(Named(commands, text), IsClientReg) # <<>>
           /\ \A k \in 1..Len(Dispatched(text)) : SetsNoCode(Dispatched(text)[k])
           /\ ClientCommand(1, text, IGNORED, goesOn))
          => metaResult' = IGNORED]_vars

C16_Witness ==
    /\ Len(commands) = 2
    /\ commands[1].type = "console" /\ commands[2].type = "client"
    /\ commands[1].handler.k = "void" /\ commands[2].handler.k = "promise"
    /\ ran = <<2, 1>> /\ ~escaped
    /\ metaResult = IGNORED

\* ---- C17: after the dispatch of a client input served with a neutral
\* signal, whose command name has console-context registrations and no
\* client-context registration, the signal equals suppress whatever the
\* handlers return (none of them throwing).
C17_ConsoleNeverFallsThrough ==
    [][\A text \in CmdTexts, goesOn \in BOOLEAN :
          (/\ SelectSeq(Named(commands, text), IsConsoleReg) # <<>>
           /\ SelectSeq(Named(commands, text), IsClientReg) = <<>>
           /\ \A k \in 1..Len(Dispatched(text)) : ~Throws(Dispatched(text)[k])
           /\ ClientCommand(1, text, IGNORED, goesOn))
          => metaResult' = SUPERCEDE]_vars

\* ---- C18: in every state, a menuselect input that reaches the menu's input
\* listener with the signal already at suppress changes nothing: no session
\* is mutated or removed, nothing is drawn and no callback runs.
C18_MenuChecksSignal ==
    \A c \in Clients, text \in KeyTexts :
       IsMenuselect(text) =>
          \/ handleMenuCommand([Wrec EXCEPT !.meta = SUPERCEDE], c, text).overflow
          \/ handleMenuCommand([Wrec EXCEPT !.meta = SUPERCEDE], c, text)
                = [Wrec EXCEPT !.meta = SUPERCEDE]

\* ---- C19: show() without a bound recipient leaves one session under the
\* 'all' key and none under a recipient's key.  In every state, a keypress of
\* a recipient with no personal session acts on the session under 'all' and
\* creates no other session; after one such recipient turned the page, the
\* keypress of any other such recipient selects from the new page, and an
\* item handler run for it is recorded in the used list of that same session.
\* (A handler that itself calls show() registers a session of its own and is
\* left aside here.)
RefItem(menu, page, slot) ==
    IF page * 7 + slot <= Len(MenuDef(menu).items)
    THEN <<MenuDef(menu).items[page * 7 + slot]>> ELSE <<>>
\* the number a keypress carries, and the handler it reaches: an item handler
\* of kind "show" is user code that itself registers a session
Selection(text) == IF Len(split(text)) >= 2 THEN parseInt(split(text)[2]) ELSE NaN
Reached(items, idx) ==
    IF idx >= 0 /\ idx < Len(items) /\ ~items[idx + 1].disabled /\ items[idx + 1].submenu = 0
    THEN items[idx + 1].handler ELSE "none"
HandlerOf(st, sel) ==
    IF sel.nan \/ sel.n \in {0, 8, 9, 10} THEN "none"
    ELSE Reached(MenuDef(st.menu).items, st.currentPage * ITEMS_PER_PAGE + sel.n - 1)
SharedStill(W0, W1, sid) ==
    /\ \A k \in Clients : W1.menuStates[k] = W0.menuStates[k]
    /\ W1.menuStates[AllKey] \in {sid, 0}
    /\ referenced(W1) \subseteq referenced(W0)
ActsOn(W0, W1, d, sid, item) ==
    IF item = <<>> \/ item[1].disabled \/ (item[1].submenu = 0 /\ item[1].handler = "none")
    THEN W1.callbacks = W0.callbacks /\ W1.renders = W0.renders
         /\ W1.sessions = W0.sessions /\ W1.menuStates = W0.menuStates
    ELSE IF item[1].submenu # 0
    THEN /\ W1.sessions[sid].menu = item[1].submenu
         /\ W1.sessions[sid].history = Append(W0.sessions[sid].history, W0.sessions[sid].menu)
         /\ W1.menuStates[AllKey] = sid
    ELSE /\ W1.callbacks = Append(W0.callbacks,
                                  [cb |-> "handler", menu |-> W0.sessions[sid].menu,
                                   client |-> d, sid |-> sid, all |-> TRUE])
         /\ W1.sessions[sid].used = Append(W0.sessions[sid].used, d)
         /\ W1.menuStates[AllKey] = sid
NextPageShared(W, c, sid, menu, page) ==
    \/ W.overflow
    \/ /\ W.sessions[sid].currentPage = page + 1
       /\ W.sessions[sid].menu = menu
       /\ \A d \in Clients \ {c}, arg \in SlotKeys :
             W.menuStates[d] = 0 =>
                \/ handleMenuCommand(W, d, Key(arg)).overflow
                \/ ActsOn(W, handleMenuCommand(W, d, Key(arg)), d, sid,
                          RefItem(menu, page + 1, SlotOf(arg)))
C19_SharedSession ==
    /\ \A menu \in MenuIds :
          \/ show(Wrec, menu, 0).overflow
          \/ /\ show(Wrec, menu, 0).menuStates[AllKey] # 0
             /\ show(Wrec, menu, 0).sessions[show(Wrec, menu, 0).menuStates[AllKey]].isAll
             /\ \A k \in Clients : show(Wrec, menu, 0).menuStates[k] = menuStates[k]
    /\ \A c \in Clients :
          (menuStates[c] = 0 /\ menuStates[AllKey] # 0) =>
             /\ \A text \in KeyTexts :
                   (IsMenuselect(text) /\ HandlerOf(SessionOf(c), Selection(text)) # "show") =>
                      \/ handleMenuCommand(Wrec, c, text).overflow
                      \/ SharedStill(Wrec, handleMenuCommand(Wrec, c, text),
                                     menuStates[AllKey])
             /\ SessionOf(c).currentPage < totalPagesOf(MenuDef(SessionOf(c).menu)) - 1
                   => NextPageShared(handleMenuCommand(Wrec, c, Key(<<"9">>)), c,
                                     menuStates[AllKey], SessionOf(c).menu,
                                     SessionOf(c).currentPage)

C19_Witness ==
    /\ menuStates[1] = 0 /\ menuStates[2] = 0 /\ menuStates[AllKey] # 0
    /\ sessions[menuStates[AllKey]].isAll
    /\ sessions[menuStates[AllKey]].currentPage = 1
    /\ sessions[menuStates[AllKey]].used = <<2>>
    /\ \E t \in timers : t.sid = menuStates[AllKey] /\ t.client = 1
    /\ Len(callbacks) = 1 /\ callbacks[1].cb = "handler" /\ callbacks[1].client = 2
    /\ callbacks[1].all

\* ---- C20: for a message with an open capture, the pre listeners run at the
\* end event, with the capture open and not yet marked ended, and see all N
\* fields written; the end marker is set and the N fields are replayed after
\* them within the same end event; at the post-end event the post listeners
\* run after the replay, with no capture open, and see the ended snapshot of
\* the N fields.
ReplayedAfter(made, n) ==
    /\ \A k \in DOMAIN calls : ByReplay(calls[k]) => k > made
    /\ Len(SelectSeq(calls, ByReplay)) = n
C20_EndOrder ==
    /\ \A i \in DOMAIN emitted :
          /\ emitted[i].seen
                = [k \in 1..Len(SelectSeq(calls, IsWritten)) |->
                      [type |-> SelectSeq(calls, IsWritten)[k].kind,
                       value |-> IF SelectSeq(calls, IsWritten)[k].kind = "entity"
                                 THEN SelectSeq(calls, IsWritten)[k].value
                                 ELSE OrElse(SelectSeq(calls, IsWritten)[k].value,
                                             IF SelectSeq(calls, IsWritten)[k].kind = "string"
                                             THEN Str("") ELSE Num(0))]]
          /\ emitted[i].label = "pre" =>
                /\ emitted[i].open /\ ~emitted[i].ended
                /\ calls[emitted[i].at].op = "end"
                /\ ReplayedAfter(emitted[i].at, Len(emitted[i].seen))
          /\ emitted[i].label = "post" =>
                /\ ~emitted[i].open /\ emitted[i].ended
                /\ emitted[i].at = Len(calls)
                /\ ReplayedAfter(0, Len(emitted[i].seen))
                /\ \A j \in DOMAIN emitted : emitted[j].label = "pre" => j < i
    /\ (msgPhase = "ended" /\ state # <<>>) =>
          /\ state[1].isMessageEnd
          /\ ReplayedAfter(Len(SelectSeq(calls, IsWritten)) + 1, Len(state[1].rawData))

\* ---- C21: in every state, a write event observed with no capture, or with
\* a capture whose end marker is set, leaves the capture as it is and the
\* result code at ignored, and the host serializes the write; a write event
\* observed with an open, un-ended capture is appended as the last field, sets
\* the result code to suppress and is not serialized.  Once the end marker is
\* set the capture holds the N fields written, replayed once each.
C21_WriteEvents ==
    /\ \A f \in FieldSet :
          IF state = <<>> \/ state[1].isMessageEnd
          THEN /\ hostWrite(mrec, f.type, f.value, "host").state = state
               /\ hostWrite(mrec, f.type, f.value, "host").meta = IGNORED
               /\ hostWrite(mrec, f.type, f.value, "host").wire
                     = Append(wire, Executed(WriteCall(f.type, f.value, "host")))
          ELSE /\ hostWrite(mrec, f.type, f.value, "host").state[1].rawData
                     = Append(state[1].rawData, [type |-> f.type, value |-> f.value])
               /\ hostWrite(mrec, f.type, f.value, "host").meta = SUPERCEDE
               /\ hostWrite(mrec, f.type, f.value, "host").wire = wire
    /\ (state # <<>> /\ state[1].isMessageEnd) =>
          /\ Len(state[1].rawData) = Len(SelectSeq(calls, IsWritten))
          /\ Len(SelectSeq(calls, ByReplay)) = Len(state[1].rawData)
          /\ Fields(SelectSeq(wire, IsWrite)) = Fields(SelectSeq(calls, ByReplay))

C21_Witness ==
    /\ msgPhase = "ended" /\ state # <<>> /\ state[1].isMessageEnd
    /\ Len(state[1].rawData) = 2
    /\ Len(SelectSeq(calls, ByReplay)) = 2
    /\ Len(SelectSeq(wire, IsWrite)) = 2

\* ---- C22: in every state, a menuselect keypress that matches no row of the
\* transition table (a number outside 0..10, a missing or non-numeric
\* argument, 8 on the first page, 9 on the last page, 1..7 on a missing or
\* disabled item or on an item with neither handler nor submenu) changes
\* nothing but the signal: sessions, keys and timers are as before, no
\* callback runs and nothing is sent.
Inert(item) ==
    item = <<>> \/ item[1].disabled \/ (item[1].submenu = 0 /\ item[1].handler = "none")
NoRow(st, sel) ==
    \/ sel.nan
    \/ sel.n < 0 \/ sel.n > 10
    \/ sel.n = 8 /\ st.currentPage = 0
    \/ sel.n = 9 /\ st.currentPage >= totalPagesOf(MenuDef(st.menu)) - 1
    \/ sel.n \in 1..7 /\ Inert(RefItem(st.menu, st.currentPage, sel.n))
C22_UnmatchedIgnored ==
    \A c \in Clients, text \in KeyTexts :
       (IsMenuselect(text) /\ menuStates[KeyOf(c)] # 0 /\ NoRow(SessionOf(c), Selection(text)))
       => handleMenuCommand(Wrec, c, text) = [Wrec EXCEPT !.meta = SUPERCEDE]

\* ---- C23: in every state, a keypress on an enabled item with a handler and
\* no submenu appends the recipient to the session's used list, runs the
\* handler exactly once and returns to the host with the command superseded
\* whatever the handler does (return, throw, rejected promise); afterwards a
\* session that is not 'all'-scoped has lost its key and its timer, and an
\* 'all'-scoped one is still registered with its menu, page, history and
\* timer as before.
HandlerRan(W0, W1, c, sid) ==
    /\ W1.callbacks = <<[cb |-> "handler", menu |-> W0.sessions[sid].menu, client |-> c,
                         sid |-> sid, all |-> W0.sessions[sid].isAll]>>
    /\ W1.sessions[sid].used = Append(W0.sessions[sid].used, c)
    /\ W1.meta = SUPERCEDE
Destroyed(W0, W1, c, sid) ==
    /\ W1.menuStates[c] = 0
    /\ \A t \in W1.timers : t.h # W0.sessions[sid].timeoutId
Kept(W0, W1, sid) ==
    /\ W1.menuStates[AllKey] = sid
    /\ W1.sessions[sid].menu = W0.sessions[sid].menu
    /\ W1.sessions[sid].currentPage = W0.sessions[sid].currentPage
    /\ W1.sessions[sid].history = W0.sessions[sid].history
    /\ W1.sessions[sid].timeoutId = W0.sessions[sid].timeoutId
    /\ {t \in W1.timers : t.sid = sid} = {t \in W0.timers : t.sid = sid}
HandlerItem(W0, W1, c, sid) ==
    \/ W1.overflow
    \/ /\ HandlerRan(W0, W1, c, sid)
       /\ IF W0.sessions[sid].isAll THEN Kept(W0, W1, sid) ELSE Destroyed(W0, W1, c, sid)
C23_HandlerItem ==
    \A c \in Clients, arg \in SlotKeys :
       (menuStates[KeyOf(c)] # 0
        /\ HandlerOf(SessionOf(c), Selection(Key(arg))) # "none")
       => HandlerItem(Wrec, handleMenuCommand(Wrec, c, Key(arg)), c, menuStates[KeyOf(c)])

\* a handler has just run in a session of one recipient, which is gone, and
\* in another step in a shared session, which is still there
C23_Witness ==
    /\ Len(callbacks) = 1 /\ callbacks[1].cb = "handler" /\ ~callbacks[1].all
    /\ menuStates[callbacks[1].client] = 0
    /\ menuStates[AllKey] # 0 /\ sessions[menuStates[AllKey]].used # <<>>

\* ---- C24: in every state each session object has at most one pending
\* timer, the one held in its timeoutId and armed for its current menu; and
\* every redraw (first render after show, previous page, next page, entering
\* a submenu, going back) leaves the session with exactly one pending timer,
\* armed by that redraw, when the rendered menu's duration is positive, and
\* with none otherwise.
TimersOf(W, sid) == {t \in W.timers : t.sid = sid}
Redraws(st, sel) ==
    /\ ~sel.nan
    /\ \/ sel.n \in {0, 10} /\ st.history # <<>>
       \/ sel.n = 8 /\ st.currentPage > 0
       \/ sel.n = 9 /\ st.currentPage < totalPagesOf(MenuDef(st.menu)) - 1
       \/ /\ sel.n \in 1..7
          /\ RefItem(st.menu, st.currentPage, sel.n) # <<>>
          /\ ~RefItem(st.menu, st.currentPage, sel.n)[1].disabled
          /\ RefItem(st.menu, st.currentPage, sel.n)[1].submenu # 0
Rearmed(W, sid, c) ==
    \/ W.overflow
    \/ TimersOf(W, sid) =
          IF MenuDef(W.sessions[sid].menu).time > 0
          THEN {[h |-> W.sessions[sid].timeoutId, sid |-> sid,
                 menu |-> W.sessions[sid].menu, client |-> c]}
          ELSE {}
C24_TimerPerRedraw ==
    /\ \A sid \in SessIds :
          /\ Cardinality(TimersOf(Wrec, sid)) <= 1
          /\ \A t \in TimersOf(Wrec, sid) :
                t.h = sessions[sid].timeoutId /\ t.menu = sessions[sid].menu
    /\ \A c \in Clients, text \in KeyTexts :
          (IsMenuselect(text) /\ menuStates[KeyOf(c)] # 0
           /\ Redraws(SessionOf(c), Selection(text)))
          => Rearmed(handleMenuCommand(Wrec, c, text), menuStates[KeyOf(c)], c)
    /\ \A menu \in MenuIds, c \in Clients :
          /\ show(Wrec, menu, c).overflow
                \/ Rearmed(show(Wrec, menu, c), show(Wrec, menu, c).menuStates[c], c)
          /\ show(Wrec, menu, 0).overflow
                \/ Rearmed(show(Wrec, menu, 0), show(Wrec, menu, 0).menuStates[AllKey],
                           Players[Len(Players)])

\* one session entered the submenu without duration and has no timer, while
\* another turned the page of the timed menu and has its one timer
C24_Witness ==
    /\ menuStates[1] # 0 /\ sessions[menuStates[1]].history = <<1>>
    /\ MenuDef(sessions[menuStates[1]].menu).time = 0
    /\ TimersOf(Wrec, menuStates[1]) = {}
    /\ menuStates[2] # 0 /\ sessions[menuStates[2]].currentPage = 1
    /\ Cardinality(TimersOf(Wrec, menuStates[2])) = 1
    /\ Len(renders) = 1 /\ renders[1].page = 1

\* ---- C25: in every state the page index p of every session satisfies
\* 0 <= p <= max(T - 1, 0), T being the page count of the session's current
\* menu; key 8 makes it p - 1 when p > 0 and leaves it otherwise, key 9 makes
\* it p + 1 when p < T - 1 and leaves it otherwise, and entering a submenu or
\* going back makes it 0.
LastPage(menu) ==
    IF totalPagesOf(MenuDef(menu)) - 1 > 0 THEN totalPagesOf(MenuDef(menu)) - 1 ELSE 0
PageAfter(c, arg) ==
    handleMenuCommand(Wrec, c, Key(arg)).sessions[menuStates[KeyOf(c)]].currentPage
Voided(cmds) ==
    [i \in 1..Len(cmds) |->
        IF cmds[i].handler.k = "promise"
        THEN [cmds[i] EXCEPT !.handler = [k |-> "void", v |-> 0]] ELSE cmds[i]]
C26_PromiseNeverApplied ==
    \A text \in CmdTexts, entry \in {IGNORED, HANDLED, OVERRIDE, SUPERCEDE} :
       dllClientCommand(commands, entry, text) = dllClientCommand(Voided(commands), entry, text)

\* two promise handlers of one name ran, the first in the client context, and
\* the signal is still neutral
C26_Witness ==
    /\ Len(commands) = 2
    /\ commands[1].handler.k = "promise" /\ commands[2].handler.k = "promise"
    /\ commands[1].handler.v = SUPERCEDE
    /\ commands[1].type = "client"
    /\ ran = <<1, 2>> /\ ~escaped
    /\ metaResult = IGNORED

\* ---- C27: in every state in which a captured message A is open and its
\* first pre listener returns normally, when that listener calls send() for a
\* message B during A's end event, the host receives exactly B's fields
\* between B's begin and B's end and exactly A's captured fields outside
\* them (nothing of B is appended to A's capture or held back for it), and
\* when B has another name than A no pre listener of A is invoked twice.
InnerBegin(log) == CHOOSE i \in 1..Len(log) : log[i].op = "begin" /\ log[i].by = "send"
InnerEnd(log) == CHOOSE i \in 1..Len(log) : log[i].op = "end" /\ log[i].by = "send"
InsideInner(log) == SelectSeq(SubSeq(log, InnerBegin(log) + 1, InnerEnd(log) - 1), IsWrite)
OutsideInner(log) ==
    SelectSeq(SubSeq(log, 1, InnerBegin(log) - 1) \o SubSeq(log, InnerEnd(log) + 1, Len(log)),
              IsWrite)
AsWritten(data) ==
    [k \in 1..Len(data) |-> [kind |-> data[k].type,
                             value |-> Executed(WriteCall(data[k].type, data[k].value, "")).value]]
Invocations(log, name, idx) ==
    Len(SelectSeq(log, LAMBDA e : e.label = "pre" /\ e.name = name /\ e.idx = idx))
SendsInside(options) ==
    hostMessageEndSending(mrec, registeredEventTypes, listeners, "host", options).m
KeptApart(R, options) ==
    /\ Fields(InsideInner(R.wire)) = AsWritten(options.data)
    /\ Fields(OutsideInner(R.wire)) = AsWritten(state[1].rawData)
    /\ getUserMsgName(options.type.id) # state[1].name =>
          \A idx \in 1..Len(listenersOf(listeners, "pre", state[1].name)) :
             Invocations(R.emitted, state[1].name, idx) <= 1
C27_NestedSend ==
    (/\ msgPhase = "open" /\ state # <<>>
     /\ listenersOf(listeners, "pre", state[1].name) # <<>>
     /\ listenersOf(listeners, "pre", state[1].name)[1] = "ok")
    => \A options \in NestedOptions : KeptApart(SendsInside(options), options)

\* ---- C28: in every state, when a recipient with a session of its own
\* presses the key of an item whose handler calls show() for that recipient,
\* then after the keypress the session shown by the handler is registered
\* under the recipient's key, and every timer armed during the keypress
\* belongs to the session registered there.
ShownByHandler(W0, W1, c) ==
    \/ W1.overflow
    \/ /\ W1.menuStates[c] # 0
       /\ W1.menuStates[c] # W0.menuStates[c]
       /\ W1.sessions[W1.menuStates[c]].menu = HandlerMenu
       /\ W1.sessions[W1.menuStates[c]].used = <<>>
       /\ \A t \in W1.timers \ W0.timers : W1.menuStates[c] = t.sid
C28_ShowFromHandler ==
    \A c \in Clients, arg \in SlotKeys :
       (menuStates[c] # 0 /\ HandlerOf(sessions[menuStates[c]], Selection(Key(arg))) = "show")
       => ShownByHandler(Wrec, handleMenuCommand(Wrec, c, Key(arg)), c)

\* ---- C29: in every state, show() of a menu without bound recipient and
\* with a positive duration, with two players connected, leaves a session
\* under the key 'all' and arms exactly one timer, that session's; and after
\* a page turn on the shared session of such a menu, no pending timer other
\* than the one that page turn armed removes the session when it fires.
OneSharedTimer(W0, W1) ==
    \/ W1.overflow
    \/ /\ W1.menuStates[AllKey] # 0
       /\ W1.timers \ W0.timers = TimersOf(W1, W1.menuStates[AllKey])
       /\ Cardinality(W1.timers \ W0.timers) = 1
Postponed(W, sid) ==
    \/ W.overflow
    \/ \A t \in W.timers \ TimersOf(W, sid) : timeoutCallback(W, t).menuStates[AllKey] = sid
C29_SharedTimer ==
    /\ Len(Players) >= 2
    /\ \A menu \in MenuIds :
          MenuDef(menu).time > 0 => OneSharedTimer(Wrec, show(Wrec, menu, 0))
    /\ \A c \in Clients :
          (/\ menuStates[c] = 0 /\ menuStates[AllKey] # 0
           /\ MenuDef(SessionOf(c).menu).time > 0
           /\ SessionOf(c).currentPage < totalPagesOf(MenuDef(SessionOf(c).menu)) - 1)
          => Postponed(handleMenuCommand(Wrec, c, Key(<<"9">>)), menuStates[AllKey])

\* ---- C30: in every state, the key mask sent with the latest render of a
\* session registered under a recipient's own key is the mask of the
\* session's menu and page, and for every slot 0..9 the bit of the slot is
\* set in that mask if and only if the recipient's keypress on the slot
\* changes the session (page, menu, history, teardown) or runs a handler.
\* Slot k is bit k - 1, slot 0 is bit 9 and arrives as 0 or as 10.
HasBit(mask, b) == (mask \div (2 ^ b)) % 2 = 1
SlotBit(k) == IF k = 0 THEN 9 ELSE k - 1
SlotTexts(k) == IF k = 0 THEN {Key(<<"0">>), Key(<<"1", "0">>)} ELSE {Key(<<Digits[k + 1]>>)}
MaskOf(st) == buildMenuDisplay(MenuDef(st.menu), st.currentPage)
HasEffect(W0, W1, c) ==
    \/ W1.overflow
    \/ W1.menuStates[c] # W0.menuStates[c]
    \/ W1.sessions[W0.menuStates[c]] # W0.sessions[W0.menuStates[c]]
    \/ W1.callbacks # <<>>
LatestRender(k) ==
    \A j \in (k + 1)..Len(renders) : renders[j].sid # renders[k].sid
C30_MaskMatchesKeys ==
    /\ \A k \in 1..Len(renders) :
          (/\ LatestRender(k) /\ renders[k].sid # 0
           /\ menuStates[renders[k].client] = renders[k].sid)
          => renders[k].keyMask = MaskOf(sessions[renders[k].sid])
    /\ \A c \in Clients, k \in 0..9, text \in KeyTexts :
          (menuStates[c] # 0 /\ text \in SlotTexts(k))
          => (HasBit(MaskOf(sessions[menuStates[c]]), SlotBit(k))
              <=> HasEffect(Wrec, handleMenuCommand(Wrec, c, text), c))

\* a recipient's own session has just been drawn on its second page: the
\* mask sent has the bits of the two items there, of key 8 and of key 0
C30_Witness ==
    /\ Len(renders) = 1 /\ renders[1].page = 1 /\ renders[1].menu = 1
    /\ menuStates[renders[1].client] = renders[1].sid
    /\ ~sessions[renders[1].sid].isAll
    /\ renders[1].keyMask = 2 ^ 0 + 2 ^ 1 + 2 ^ 7 + 2 ^ 9

====
